---- MODULE Spec2Model ----
\* Room-based publish/subscribe core of the Q&A server: the WebSocket
\* connection handler (join / close), the in-memory room table `rooms`,
\* broadcastToRoom, and the question submission route with its store.
EXTENDS Integers, Sequences, FiniteSets, TLC

\* ---------------------------------------------------------------- bounds
NumConns == 3          \* connection handles c1..cN
MaxJoinFrames == 2     \* join frames processed in one behaviour
MaxDuplicateCloses == 1 \* close events beyond a handle's first, in one behaviour
NumQuestionConns == 2  \* handles connected next to submissions and deletions
NumFrameConns == 2     \* handles connected while frames of every kind arrive
NumBootConns == 2      \* handles connecting while the process starts
NumAskConns == 2       \* handles connected while submissions are in flight
MaxAsks == 1           \* POST /api/ask requests in one behaviour
MaxSessions == 3       \* Session documents, were the store to accept every save
MaxGets == 1           \* GET /api/sessions/:code requests in one behaviour
MaxDeletes == 1        \* DELETE /api/questions/:id requests in one behaviour
MaxConcurrentDeletes == 2   \* DELETE requests where deletions run side by side
MaxOtherFrames == 1  \* frames other than a join with a room, in one behaviour

Conns == 1..NumConns
Codes == {"A", "B"}    \* room codes a client may name or nanoid may draw
Texts == {"Hi"}
Names == {"Alice", ""} \* "" stands for an omitted / blank name (falsy)
Ips == {"ip1"}
undefined == "undefined"
Anonymous == "anonymous"    \* the schema / route default name
AskNames == {"Alice", "", undefined}   \* a name, a blank name, no name in the body
AskIps == {"ip1", "ip2"}               \* req.ip

VARIABLES
    rooms,        \* const rooms = new Map(): code -> insertion-ordered Set of ws
    wsRoomCode,   \* ws.roomCode of every handle
    readyState,   \* ws.readyState of every handle
    joinTasks,    \* per handle, the join continuations suspended at the await
    sessions,     \* the Session collection, a document's _id is its index
    questions,    \* the Question collection
    nextQuestionId, \* _id the store assigns to the next saved Question
    asks,         \* the POST /api/ask requests, each with its position and
                  \* the outcome of its lookup and of its save
    sent,         \* per handle, the frames client.send() has written to it
    joinLog,      \* history: the room codes a handle has sent a join frame for
    joinFrames,   \* history: join frames processed so far
    closeEvents,  \* history: close events processed per handle
    incFailures,  \* history: room codes with a rejected counter increment
    deletes,      \* the DELETE /api/questions/:id requests, each with its position
    otherFrames,  \* history: handled frames other than a join that names a room
    dbState,      \* mongoose.connect(): "connecting", "connected" or "failed"
    listening,    \* server.listen() has been called
    exited,       \* process.exit(1) has been called
    gets,         \* the GET /api/sessions/:code requests, each with its position
    createRejected \* history: codes for which a session creation was rejected

vars == <<rooms, wsRoomCode, readyState, joinTasks, sessions, questions,
          nextQuestionId, asks, sent, joinLog, joinFrames, closeEvents, incFailures,
          deletes, otherFrames, dbState, listening, exited, gets, createRejected>>

\* the start-up state of the process
bootVars == <<dbState, listening, exited>>

\* ---------------------------------------------------------------- helpers
RECURSIVE SeqToSet(_)
SeqToSet(s) == IF s = <<>> THEN {} ELSE {Head(s)} \cup SeqToSet(Tail(s))

RECURSIVE SumNat(_, _)
SumNat(f, S) ==
    IF S = {} THEN 0
    ELSE LET x == CHOOSE y \in S : TRUE IN f[x] + SumNat(f, S \ {x})

RemoveAt(s, i) == SubSeq(s, 1, i - 1) \o SubSeq(s, i + 1, Len(s))

\* Array.prototype.push: appends whether or not the element is present
ArrayPush(s, x) == Append(s, x)

\* Set.prototype.add: appends unless already present (insertion order kept)
SetAdd(s, x) == IF x \in SeqToSet(s) THEN s ELSE Append(s, x)

\* Set.prototype.delete: removes the element, a no-op when absent
SetDelete(s, x) == SelectSeq(s, LAMBDA y : y # x)

\* Map.prototype.has / set / delete on the rooms table
RoomsHas(m, code) == code \in DOMAIN m
RoomsSet(m, code, v) == [k \in DOMAIN m \cup {code} |-> IF k = code THEN v ELSE m[k]]
RoomsDelete(m, code) == [k \in DOMAIN m \ {code} |-> m[k]]

\* outbound frames
CountUpdate(n) == [type |-> "client_count_update", count |-> n]
\* an event built from the whole document
NewQuestionEventWithAddress(q) ==
    [type |-> "new_question",
     payload |-> [id |-> q.id, text |-> q.text, name |-> q.name, ipAddress |-> q.ipAddress]]

NewQuestionEvent(q) ==
    [type |-> "new_question", payload |-> [id |-> q.id, text |-> q.text, name |-> q.name]]

\* ---------------------------------------------------------------- broadcastToRoom
\* a forEach that ends at the first member whose transport is not open
RECURSIVE ForEachSendUntilBroken(_, _, _, _)
ForEachSendUntilBroken(members, rs, out, data) ==
    IF members = <<>> THEN out
    ELSE IF rs[Head(members)] # "OPEN" THEN out
    ELSE ForEachSendUntilBroken(Tail(members), rs,
                                [out EXCEPT ![Head(members)] = Append(@, data)], data)

\* rooms.get(roomCode).forEach(client => { if (client.readyState === OPEN) client.send(...) })
RECURSIVE ForEachSend(_, _, _, _)
ForEachSend(members, rs, out, data) ==
    IF members = <<>> THEN out
    ELSE LET client == Head(members)
             out2 == IF rs[client] = "OPEN"
                     THEN [out EXCEPT ![client] = Append(@, data)]
                     ELSE out
         IN ForEachSend(Tail(members), rs, out2, data)

\* a broadcast through per-handle queues where only the set's first member
\* has its frame put at the tail; the others get it at the head
broadcastToRoomHeadOfQueue(m, rs, out, roomCode, data) ==
    [c \in DOMAIN out |->
        IF roomCode \in DOMAIN m /\ c \in SeqToSet(m[roomCode]) /\ rs[c] = "OPEN"
        THEN IF m[roomCode][1] = c THEN Append(out[c], data) ELSE <<data>> \o out[c]
        ELSE out[c]]

\* wss.clients.forEach(...): every open handle, whatever its room
broadcastToAllClients(m, rs, out, roomCode, data) ==
    [c \in DOMAIN out |-> IF rs[c] = "OPEN" THEN Append(out[c], data) ELSE out[c]]

broadcastToRoom(m, rs, out, roomCode, data) ==
    IF RoomsHas(m, roomCode) THEN ForEachSend(m[roomCode], rs, out, data) ELSE out

\* const currentCount = rooms.get(roomCode).size, read after the await
currentCountExcludingSelf(m, roomCode) == Len(m[roomCode]) - 1
currentCount(m, roomCode) == Len(m[roomCode])

\* ---------------------------------------------------------------- store
\* a findOne whose filter is dropped: any document matches
FindOneSessionAnyCode(ss, code) == IF Len(ss) > 0 THEN 1 ELSE 0

\* Session.findOne({ code }): index of the document, 0 for null
FindOneSession(ss, code) ==
    IF \E i \in 1..Len(ss) : ss[i].code = code
    THEN CHOOSE i \in 1..Len(ss) : ss[i].code = code
    ELSE 0

\* an update with { $set: { totalConnections: 1 } } in place of the $inc
SetTotalConnections(ss, code) ==
    LET i == FindOneSession(ss, code)
    IN IF i = 0 THEN ss
       ELSE [ss EXCEPT ![i].totalConnections = 1]

\* the update with { upsert: true }: a code no Session has gets one
IncTotalConnectionsUpsert(ss, code) ==
    LET i == FindOneSession(ss, code)
    IN IF i = 0 THEN Append(ss, [code |-> code, totalConnections |-> 1])
       ELSE [ss EXCEPT ![i].totalConnections = @ + 1]

\* Session.findOneAndUpdate({ code }, { $inc: { totalConnections: 1 } })
IncTotalConnections(ss, code) ==
    LET i == FindOneSession(ss, code)
    IN IF i = 0 THEN ss
       ELSE [ss EXCEPT ![i].totalConnections = @ + 1]

\* ---------------------------------------------------------------- init
Init ==
    /\ rooms = <<>>
    /\ wsRoomCode = [c \in Conns |-> undefined]
    /\ readyState = [c \in Conns |-> "CONNECTING"]
    /\ joinTasks = [c \in Conns |-> <<>>]
    /\ sessions = <<>>
    /\ questions = {}
    /\ nextQuestionId = 1
    /\ asks = <<>>
    /\ sent = [c \in Conns |-> <<>>]
    /\ joinLog = [c \in Conns |-> {}]
    /\ joinFrames = 0
    /\ closeEvents = [c \in Conns |-> 0]
    /\ incFailures = {}
    /\ deletes = <<>>
    /\ otherFrames = <<>>
    /\ dbState = "connected"
    /\ listening = TRUE
    /\ exited = FALSE
    /\ gets = <<>>
    /\ createRejected = {}

\* ---------------------------------------------------------------- inputs
\* what JSON.parse(message) yields: parses = FALSE is a frame that throws
Frames ==
    {[parses |-> FALSE, type |-> undefined, room |-> undefined]}
    \cup {[parses |-> TRUE, type |-> "join", room |-> r] : r \in Codes \cup {undefined}}
    \cup {[parses |-> TRUE, type |-> "ping", room |-> undefined]}

\* the frames that make the handler join a room
JoinFrames == {f \in Frames : f.parses /\ f.type = "join" /\ f.room # undefined}

\* close events processed beyond each handle's first
DuplicateCloses == SumNat([c \in Conns |-> IF closeEvents[c] > 1 THEN closeEvents[c] - 1 ELSE 0], Conns)

\* ---------------------------------------------------------------- WebSocket server
\* wss.on('connection', ws => ...): the handle exists, open, with no roomCode
Connection(c) ==
    /\ readyState[c] = "CONNECTING"
    /\ \A d \in Conns : d < c => readyState[d] # "CONNECTING"   \* handles are handed out in order
    /\ readyState' = [readyState EXCEPT ![c] = "OPEN"]
    /\ UNCHANGED <<deletes, otherFrames, bootVars, gets, createRejected>>
    /\ UNCHANGED <<rooms, wsRoomCode, joinTasks, sessions, questions, nextQuestionId,
                   asks, sent, joinLog, joinFrames, closeEvents, incFailures>>

\* the transport starts closing (peer close frame, socket error): readyState
\* leaves OPEN before the 'close' event is emitted
TransportClosing(c) ==
    /\ readyState[c] = "OPEN"
    /\ readyState' = [readyState EXCEPT ![c] = "CLOSING"]
    /\ UNCHANGED <<deletes, otherFrames, bootVars, gets, createRejected>>
    /\ UNCHANGED <<rooms, wsRoomCode, joinTasks, sessions, questions, nextQuestionId,
                   asks, sent, joinLog, joinFrames, closeEvents, incFailures>>

\* a handler whose catch ends the connection
MessageTerminateOnParseError(c, frame) ==
    /\ readyState[c] = "OPEN"
    /\ IF frame.parses /\ frame.type = "join" /\ frame.room # undefined
       THEN LET roomCode == frame.room
                members == IF RoomsHas(rooms, roomCode) THEN rooms[roomCode] ELSE <<>>
            IN /\ joinFrames < MaxJoinFrames
               /\ joinFrames' = joinFrames + 1
               /\ wsRoomCode' = [wsRoomCode EXCEPT ![c] = roomCode]
               /\ rooms' = RoomsSet(rooms, roomCode, SetAdd(members, c))
               /\ joinTasks' = [joinTasks EXCEPT ![c] = Append(@, roomCode)]
               /\ joinLog' = [joinLog EXCEPT ![c] = @ \cup {roomCode}]
               /\ UNCHANGED <<readyState, sessions, questions, nextQuestionId, asks,
                              sent, closeEvents, incFailures, deletes, otherFrames, bootVars, gets, createRejected>>
       ELSE \* the catch calls ws.terminate()
            /\ Len(otherFrames) < MaxOtherFrames
            /\ otherFrames' = Append(otherFrames, [conn |-> c, frame |-> frame])
            /\ readyState' = IF frame.parses THEN readyState
                             ELSE [readyState EXCEPT ![c] = "CLOSING"]
            /\ UNCHANGED <<rooms, wsRoomCode, joinTasks, sessions, questions,
                           nextQuestionId, asks, sent, joinLog, joinFrames, closeEvents,
                           incFailures, deletes, bootVars, gets, createRejected>>

\* a handler whose `if` tests data.type only
MessageJoinWithoutRoom(c, frame) ==
    /\ readyState[c] = "OPEN"
    /\ IF frame.parses /\ frame.type = "join"
       THEN LET roomCode == frame.room
                members == IF RoomsHas(rooms, roomCode) THEN rooms[roomCode] ELSE <<>>
            IN /\ joinFrames < MaxJoinFrames
               /\ joinFrames' = joinFrames + 1
               /\ wsRoomCode' = [wsRoomCode EXCEPT ![c] = roomCode]
               /\ rooms' = RoomsSet(rooms, roomCode, SetAdd(members, c))
               /\ joinTasks' = [joinTasks EXCEPT ![c] = Append(@, roomCode)]
               /\ joinLog' = [joinLog EXCEPT ![c] = @ \cup {roomCode}]
               /\ otherFrames' = IF frame.room = undefined
                                 THEN Append(otherFrames, [conn |-> c, frame |-> frame])
                                 ELSE otherFrames
               /\ UNCHANGED <<readyState, sessions, questions, nextQuestionId, asks,
                              sent, closeEvents, incFailures, deletes, bootVars, gets, createRejected>>
       ELSE \* JSON.parse threw (caught, logged) or the `if` is false: nothing runs
            /\ Len(otherFrames) < MaxOtherFrames
            /\ otherFrames' = Append(otherFrames, [conn |-> c, frame |-> frame])
            /\ UNCHANGED <<rooms, wsRoomCode, readyState, joinTasks, sessions, questions,
                           nextQuestionId, asks, sent, joinLog, joinFrames, closeEvents,
                           incFailures, deletes, bootVars, gets, createRejected>>

\* a handler that holds the event loop while an increment is outstanding (a
\* synchronous store call): no frame is handled until every join has resumed
MessageAfterEveryIncrement(c, frame) ==
    /\ \A d \in Conns : joinTasks[d] = <<>>
    /\ readyState[c] = "OPEN"
    /\ IF frame.parses /\ frame.type = "join" /\ frame.room # undefined
       THEN LET roomCode == frame.room
                members == IF RoomsHas(rooms, roomCode) THEN rooms[roomCode] ELSE <<>>
            IN /\ joinFrames < MaxJoinFrames
               /\ joinFrames' = joinFrames + 1
               /\ wsRoomCode' = [wsRoomCode EXCEPT ![c] = roomCode]
               /\ rooms' = RoomsSet(rooms, roomCode, SetAdd(members, c))
               /\ joinTasks' = [joinTasks EXCEPT ![c] = Append(@, roomCode)]
               /\ joinLog' = [joinLog EXCEPT ![c] = @ \cup {roomCode}]
               /\ UNCHANGED <<readyState, sessions, questions, nextQuestionId, asks,
                              sent, closeEvents, incFailures, deletes, otherFrames, bootVars, gets, createRejected>>
       ELSE /\ Len(otherFrames) < MaxOtherFrames
            /\ otherFrames' = Append(otherFrames, [conn |-> c, frame |-> frame])
            /\ UNCHANGED <<rooms, wsRoomCode, readyState, joinTasks, sessions, questions,
                           nextQuestionId, asks, sent, joinLog, joinFrames, closeEvents,
                           incFailures, deletes, bootVars, gets, createRejected>>

\* ws.on('message'), up to the await: parse, mark the handle, add it to the set
Message(c, frame) ==
    /\ readyState[c] = "OPEN"
    /\ IF frame.parses /\ frame.type = "join" /\ frame.room # undefined
       THEN LET roomCode == frame.room
                members == IF RoomsHas(rooms, roomCode) THEN rooms[roomCode] ELSE <<>>
            IN /\ joinFrames < MaxJoinFrames
               /\ joinFrames' = joinFrames + 1
               /\ wsRoomCode' = [wsRoomCode EXCEPT ![c] = roomCode]
               /\ rooms' = RoomsSet(rooms, roomCode, SetAdd(members, c))
               /\ joinTasks' = [joinTasks EXCEPT ![c] = Append(@, roomCode)]
               /\ joinLog' = [joinLog EXCEPT ![c] = @ \cup {roomCode}]
               /\ UNCHANGED <<readyState, sessions, questions, nextQuestionId, asks,
                              sent, closeEvents, incFailures, deletes, otherFrames, bootVars, gets, createRejected>>
       ELSE \* JSON.parse threw (caught, logged) or the `if` is false: nothing runs
            /\ Len(otherFrames) < MaxOtherFrames
            /\ otherFrames' = Append(otherFrames, [conn |-> c, frame |-> frame])
            /\ UNCHANGED <<rooms, wsRoomCode, readyState, joinTasks, sessions, questions,
                           nextQuestionId, asks, sent, joinLog, joinFrames, closeEvents,
                           incFailures, deletes, bootVars, gets, createRejected>>

\* a continuation that counts the members whose transport is open instead of
\* reading rooms.get(roomCode).size
JoinResumeCountingOpenOnly(c, i, ok) ==
    /\ i \in 1..Len(joinTasks[c])
    /\ LET roomCode == joinTasks[c][i]
       IN /\ joinTasks' = [joinTasks EXCEPT ![c] = RemoveAt(@, i)]
          /\ IF ok
             THEN /\ sessions' = IncTotalConnections(sessions, roomCode)
                  /\ incFailures' = incFailures
                  /\ IF RoomsHas(rooms, roomCode)
                     THEN sent' = broadcastToRoom(rooms, readyState, sent, roomCode,
                                      CountUpdate(Len(SelectSeq(rooms[roomCode],
                                          LAMBDA d : readyState[d] = "OPEN"))))
                     ELSE sent' = sent
             ELSE /\ incFailures' = incFailures \cup {roomCode}
                  /\ UNCHANGED <<sessions, sent>>
    /\ UNCHANGED <<deletes, otherFrames, bootVars, gets, createRejected>>
    /\ UNCHANGED <<rooms, wsRoomCode, readyState, questions, nextQuestionId, asks,
                   joinLog, joinFrames, closeEvents>>

\* ws.on('message') after `await Session.findOneAndUpdate(...)`: ok = FALSE is a
\* rejected promise, which the handler's catch logs
JoinResume(c, i, ok) ==
    /\ i \in 1..Len(joinTasks[c])
    /\ LET roomCode == joinTasks[c][i]
       IN /\ joinTasks' = [joinTasks EXCEPT ![c] = RemoveAt(@, i)]
          /\ IF ok
             THEN /\ sessions' = IncTotalConnections(sessions, roomCode)
                  /\ incFailures' = incFailures
                  /\ IF RoomsHas(rooms, roomCode)
                     THEN sent' = broadcastToRoom(rooms, readyState, sent, roomCode,
                                                  CountUpdate(currentCount(rooms, roomCode)))
                     ELSE sent' = sent   \* rooms.get(...) is undefined: TypeError, caught
             ELSE /\ incFailures' = incFailures \cup {roomCode}
                  /\ UNCHANGED <<sessions, sent>>
    /\ UNCHANGED <<deletes, otherFrames, bootVars, gets, createRejected>>
    /\ UNCHANGED <<rooms, wsRoomCode, readyState, questions, nextQuestionId, asks,
                   joinLog, joinFrames, closeEvents>>

\* a close handler without the `else` branch: the emptied Set stays in the Map
CloseKeepingEmptyRoom(c) ==
    /\ readyState[c] # "CONNECTING"
    /\ closeEvents[c] = 0 \/ DuplicateCloses < MaxDuplicateCloses
    /\ readyState' = [readyState EXCEPT ![c] = "CLOSED"]
    /\ closeEvents' = [closeEvents EXCEPT ![c] = @ + 1]
    /\ IF wsRoomCode[c] # undefined /\ RoomsHas(rooms, wsRoomCode[c])
       THEN LET room == SetDelete(rooms[wsRoomCode[c]], c)
            IN /\ rooms' = RoomsSet(rooms, wsRoomCode[c], room)
               /\ sent' = IF Len(room) > 0
                          THEN broadcastToRoom(rooms', readyState', sent, wsRoomCode[c],
                                               CountUpdate(Len(room)))
                          ELSE sent
       ELSE UNCHANGED <<rooms, sent>>
    /\ UNCHANGED <<deletes, otherFrames, bootVars, gets, createRejected>>
    /\ UNCHANGED <<wsRoomCode, joinTasks, sessions, questions, nextQuestionId, asks,
                   joinLog, joinFrames, incFailures>>

\* a close handler that drops the room's entry whenever a member leaves
CloseDeletingRoom(c) ==
    /\ readyState[c] # "CONNECTING"
    /\ closeEvents[c] = 0 \/ DuplicateCloses < MaxDuplicateCloses
    /\ readyState' = [readyState EXCEPT ![c] = "CLOSED"]
    /\ closeEvents' = [closeEvents EXCEPT ![c] = @ + 1]
    /\ IF wsRoomCode[c] # undefined /\ RoomsHas(rooms, wsRoomCode[c])
       THEN LET room == SetDelete(rooms[wsRoomCode[c]], c)
            IN /\ rooms' = RoomsDelete(rooms, wsRoomCode[c])
               /\ sent' = IF Len(room) > 0
                          THEN broadcastToRoom(RoomsSet(rooms, wsRoomCode[c], room),
                                               readyState', sent, wsRoomCode[c],
                                               CountUpdate(Len(room)))
                          ELSE sent
       ELSE UNCHANGED <<rooms, sent>>
    /\ UNCHANGED <<deletes, otherFrames, bootVars, gets, createRejected>>
    /\ UNCHANGED <<wsRoomCode, joinTasks, sessions, questions, nextQuestionId, asks,
                   joinLog, joinFrames, incFailures>>

\* a close handler that reads room.size before room.delete(ws)
CloseCountingLeaver(c) ==
    /\ readyState[c] # "CONNECTING"
    /\ closeEvents[c] = 0 \/ DuplicateCloses < MaxDuplicateCloses
    /\ readyState' = [readyState EXCEPT ![c] = "CLOSED"]
    /\ closeEvents' = [closeEvents EXCEPT ![c] = @ + 1]
    /\ IF wsRoomCode[c] # undefined /\ RoomsHas(rooms, wsRoomCode[c])
       THEN LET room == SetDelete(rooms[wsRoomCode[c]], c)
            IN IF Len(room) > 0
               THEN /\ rooms' = RoomsSet(rooms, wsRoomCode[c], room)
                    /\ sent' = broadcastToRoom(rooms', readyState', sent, wsRoomCode[c],
                                               CountUpdate(Len(rooms[wsRoomCode[c]])))
               ELSE /\ rooms' = RoomsDelete(rooms, wsRoomCode[c])
                    /\ sent' = sent
       ELSE UNCHANGED <<rooms, sent>>
    /\ UNCHANGED <<deletes, otherFrames, bootVars, gets, createRejected>>
    /\ UNCHANGED <<wsRoomCode, joinTasks, sessions, questions, nextQuestionId, asks,
                   joinLog, joinFrames, incFailures>>

\* ws.on('close')
Close(c) ==
    /\ readyState[c] # "CONNECTING"
    /\ closeEvents[c] = 0 \/ DuplicateCloses < MaxDuplicateCloses
    /\ readyState' = [readyState EXCEPT ![c] = "CLOSED"]
    /\ closeEvents' = [closeEvents EXCEPT ![c] = @ + 1]
    /\ IF wsRoomCode[c] # undefined /\ RoomsHas(rooms, wsRoomCode[c])
       THEN LET room == SetDelete(rooms[wsRoomCode[c]], c)
            IN IF Len(room) > 0
               THEN /\ rooms' = RoomsSet(rooms, wsRoomCode[c], room)
                    /\ sent' = broadcastToRoom(rooms', readyState', sent, wsRoomCode[c],
                                               CountUpdate(Len(room)))
               ELSE /\ rooms' = RoomsDelete(rooms, wsRoomCode[c])
                    /\ sent' = sent
       ELSE UNCHANGED <<rooms, sent>>
    /\ UNCHANGED <<deletes, otherFrames, bootVars, gets, createRejected>>
    /\ UNCHANGED <<wsRoomCode, joinTasks, sessions, questions, nextQuestionId, asks,
                   joinLog, joinFrames, incFailures>>

\* ---------------------------------------------------------------- HTTP routes
\* a Session schema whose code has no `unique: true`: every save is accepted
CreateSessionWithoutIndex(code) ==
    /\ sessions' = Append(sessions, [code |-> code, totalConnections |-> 0])
    /\ createRejected' = createRejected
    /\ UNCHANGED <<deletes, otherFrames, bootVars, gets>>
    /\ UNCHANGED <<rooms, wsRoomCode, readyState, joinTasks, questions, nextQuestionId,
                   asks, sent, joinLog, joinFrames, closeEvents, incFailures>>

\* POST /api/sessions: new Session({ name }) draws code = nanoid(6); save()
\* rejects on the unique index when the code is taken
CreateSession(code) ==
    /\ IF FindOneSession(sessions, code) = 0
       THEN /\ sessions' = Append(sessions, [code |-> code, totalConnections |-> 0])
            /\ createRejected' = createRejected
       ELSE /\ sessions' = sessions      \* duplicate key: the catch answers 500
            /\ createRejected' = createRejected \cup {code}
    /\ UNCHANGED <<deletes, otherFrames, bootVars, gets>>
    /\ UNCHANGED <<rooms, wsRoomCode, readyState, joinTasks, questions, nextQuestionId,
                   asks, sent, joinLog, joinFrames, closeEvents, incFailures>>

\* POST /api/ask/:code, up to `await Session.findOne(...)`
AskReceive(code, question, name, ip) ==
    /\ Len(asks) < MaxAsks
    /\ asks' = Append(asks, [code |-> code, question |-> question, name |-> name,
                             ip |-> ip, pc |-> "findOne", status |-> 0,
                             lookup |-> "pending", session |-> 0,
                             newQuestion |-> 0, saved |-> FALSE,
                             audience |-> {}])
    /\ UNCHANGED <<deletes, otherFrames, bootVars, gets, createRejected>>
    /\ UNCHANGED <<rooms, wsRoomCode, readyState, joinTasks, sessions, questions,
                   nextQuestionId, sent, joinLog, joinFrames, closeEvents, incFailures>>

\* a document built with `name: name`, leaving the default to the schema, which
\* fills in a missing name only
NewQuestionDocSchemaDefault(a, s, id) ==
    [id |-> id, text |-> a.question,
     name |-> IF a.name = undefined THEN Anonymous ELSE a.name,
     sessionId |-> s, ipAddress |-> a.ip]

\* the document `new Question({...})` builds for request a with session s
NewQuestionDoc(a, s, id) ==
    [id |-> id, text |-> a.question,
     name |-> IF a.name \in {"", undefined} THEN Anonymous ELSE a.name,   \* name || '匿名'
     sessionId |-> s, ipAddress |-> a.ip]

\* a route without `if (!session) return ...`: a null lookup goes on to the save
AskFindOneDoneWithoutNullCheck(i, ok) ==
    /\ i \in 1..Len(asks)
    /\ asks[i].pc = "findOne"
    /\ LET s == FindOneSession(sessions, asks[i].code)
           \* history: the open members of rooms[code] as the lookup completes
           audience == IF RoomsHas(rooms, asks[i].code)
                       THEN {c \in SeqToSet(rooms[asks[i].code]) : readyState[c] = "OPEN"}
                       ELSE {}
       IN IF ~ok
          THEN /\ asks' = [asks EXCEPT ![i].pc = "done", ![i].status = 500,
                                       ![i].lookup = "rejected"]
               /\ UNCHANGED nextQuestionId
          ELSE /\ asks' = [asks EXCEPT ![i].pc = "save", ![i].lookup = "found",
                                       ![i].session = s,
                                       ![i].newQuestion = nextQuestionId]
               /\ nextQuestionId' = nextQuestionId + 1
    /\ UNCHANGED <<deletes, otherFrames, bootVars, gets, createRejected>>
    /\ UNCHANGED <<rooms, wsRoomCode, readyState, joinTasks, sessions, questions,
                   sent, joinLog, joinFrames, closeEvents, incFailures>>

\* the findOne resolved (ok) or rejected: 404 on null, else build newQuestion
\* and call save()
AskFindOneDone(i, ok) ==
    /\ i \in 1..Len(asks)
    /\ asks[i].pc = "findOne"
    /\ LET s == FindOneSession(sessions, asks[i].code)
           \* history: the open members of rooms[code] as the lookup completes
           audience == IF RoomsHas(rooms, asks[i].code)
                       THEN {c \in SeqToSet(rooms[asks[i].code]) : readyState[c] = "OPEN"}
                       ELSE {}
       IN IF ~ok
          THEN /\ asks' = [asks EXCEPT ![i].pc = "done", ![i].status = 500,
                                       ![i].lookup = "rejected"]
               /\ UNCHANGED nextQuestionId
          ELSE IF s = 0
          THEN /\ asks' = [asks EXCEPT ![i].pc = "done", ![i].status = 404,
                                       ![i].lookup = "null",
                                       ![i].audience = audience]
               /\ UNCHANGED nextQuestionId
          ELSE /\ asks' = [asks EXCEPT ![i].pc = "save", ![i].lookup = "found",
                                       ![i].session = s,
                                       ![i].newQuestion = nextQuestionId]
               /\ nextQuestionId' = nextQuestionId + 1
    /\ UNCHANGED <<deletes, otherFrames, bootVars, gets, createRejected>>
    /\ UNCHANGED <<rooms, wsRoomCode, readyState, joinTasks, sessions, questions,
                   sent, joinLog, joinFrames, closeEvents, incFailures>>

\* a save whose rejection is swallowed: the route goes on to its broadcast
AskSaveCommitSwallow(i, ok) ==
    /\ i \in 1..Len(asks)
    /\ asks[i].pc = "save"
    /\ IF ok
       THEN /\ questions' = questions \cup
                   {NewQuestionDoc(asks[i], asks[i].session, asks[i].newQuestion)}
            /\ asks' = [asks EXCEPT ![i].pc = "saved", ![i].saved = TRUE]
       ELSE /\ questions' = questions
            /\ asks' = [asks EXCEPT ![i].pc = "saved"]
    /\ UNCHANGED <<deletes, otherFrames, bootVars, gets, createRejected>>
    /\ UNCHANGED <<rooms, wsRoomCode, readyState, joinTasks, sessions, nextQuestionId,
                   sent, joinLog, joinFrames, closeEvents, incFailures>>

\* the store commits the save (ok) or rejects it; a rejection reaches the
\* route's catch: 500
AskSaveCommit(i, ok) ==
    /\ i \in 1..Len(asks)
    /\ asks[i].pc = "save"
    /\ IF ok
       THEN /\ questions' = questions \cup
                   {NewQuestionDoc(asks[i], asks[i].session, asks[i].newQuestion)}
            /\ asks' = [asks EXCEPT ![i].pc = "saved", ![i].saved = TRUE]
       ELSE /\ questions' = questions
            /\ asks' = [asks EXCEPT ![i].pc = "done", ![i].status = 500]
    /\ UNCHANGED <<deletes, otherFrames, bootVars, gets, createRejected>>
    /\ UNCHANGED <<rooms, wsRoomCode, readyState, joinTasks, sessions, nextQuestionId,
                   sent, joinLog, joinFrames, closeEvents, incFailures>>

\* a route that follows the new_question broadcast with the room's live count
AskSaveDoneWithCount(i) ==
    /\ i \in 1..Len(asks)
    /\ asks[i].pc = "saved"
    /\ LET doc == NewQuestionDoc(asks[i], asks[i].session, asks[i].newQuestion)
           code == sessions[asks[i].session].code
           out == broadcastToRoom(rooms, readyState, sent, code, NewQuestionEvent(doc))
       IN sent' = IF RoomsHas(rooms, code)
                  THEN broadcastToRoom(rooms, readyState, out, code,
                                       CountUpdate(currentCount(rooms, code)))
                  ELSE out
    /\ asks' = [asks EXCEPT ![i].pc = "done", ![i].status = 200]
    /\ UNCHANGED <<deletes, otherFrames, bootVars, gets, createRejected>>
    /\ UNCHANGED <<rooms, wsRoomCode, readyState, joinTasks, sessions, questions,
                   nextQuestionId, joinLog, joinFrames, closeEvents, incFailures>>

\* POST /api/ask/:code after `await newQuestion.save()`: broadcast, respond 200
AskSaveDone(i) ==
    /\ i \in 1..Len(asks)
    /\ asks[i].pc = "saved"
    /\ LET doc == NewQuestionDoc(asks[i], asks[i].session, asks[i].newQuestion)
       IN sent' = broadcastToRoom(rooms, readyState, sent, sessions[asks[i].session].code,
                                  NewQuestionEvent(doc))
    /\ asks' = [asks EXCEPT ![i].pc = "done", ![i].status = 200]
    /\ UNCHANGED <<deletes, otherFrames, bootVars, gets, createRejected>>
    /\ UNCHANGED <<rooms, wsRoomCode, readyState, joinTasks, sessions, questions,
                   nextQuestionId, joinLog, joinFrames, closeEvents, incFailures>>

\* ---------------------------------------------------------------- POST /api/ask/:code, first revision
\* the route as first written: the same statements in the try, no ipAddress in
\* the document, and `catch (e) { }`: a rejected lookup ends the handler with
\* no response written
AskFindOneDoneFirst(i, ok) ==
    IF ok
    THEN AskFindOneDone(i, TRUE)
    ELSE /\ i \in 1..Len(asks)
         /\ asks[i].pc = "findOne"
         /\ asks' = [asks EXCEPT ![i].pc = "done", ![i].lookup = "rejected"]
         /\ UNCHANGED <<deletes, otherFrames, bootVars, gets, createRejected>>
         /\ UNCHANGED <<rooms, wsRoomCode, readyState, joinTasks, sessions, questions,
                        nextQuestionId, sent, joinLog, joinFrames, closeEvents, incFailures>>

\* the save commits or is rejected; the rejection ends in the empty catch
AskSaveCommitFirst(i, ok) ==
    /\ i \in 1..Len(asks)
    /\ asks[i].pc = "save"
    /\ IF ok
       THEN /\ questions' = questions \cup
                   {[NewQuestionDoc(asks[i], asks[i].session, asks[i].newQuestion)
                        EXCEPT !.ipAddress = undefined]}
            /\ asks' = [asks EXCEPT ![i].pc = "saved", ![i].saved = TRUE]
       ELSE /\ questions' = questions
            /\ asks' = [asks EXCEPT ![i].pc = "done"]
    /\ UNCHANGED <<deletes, otherFrames, bootVars, gets, createRejected>>
    /\ UNCHANGED <<rooms, wsRoomCode, readyState, joinTasks, sessions, nextQuestionId,
                   sent, joinLog, joinFrames, closeEvents, incFailures>>

\* ---------------------------------------------------------------- DELETE /api/questions/:id
QuestionDeletedEvent(id) ==
    [type |-> "question_deleted", payload |-> [questionId |-> id]]

\* Question.findById: the document with that _id, or the empty set for null
FindQuestionById(qs, id) == {q \in qs : q.id = id}

\* the open members of rooms[code], in whatever state the step starts in
OpenMembers(code) ==
    IF RoomsHas(rooms, code)
    THEN {c \in SeqToSet(rooms[code]) : readyState[c] = "OPEN"}
    ELSE {}

\* adminAuth, then the route up to `await Question.findByIdAndDelete(...)`:
\* valid is what mongoose.Types.ObjectId.isValid(req.params.id) returns
DeleteReceive(id, valid, authed) ==
    /\ Len(deletes) < MaxConcurrentDeletes
    /\ deletes' = Append(deletes,
           [id |-> id, valid |-> valid, authed |-> authed,
            pc |-> IF authed /\ valid THEN "findByIdAndDelete" ELSE "done",
            status |-> IF ~authed THEN 401 ELSE IF ~valid THEN 400 ELSE 0,
            deleted |-> FALSE, sessionId |-> 0, audience |-> {}])
    /\ UNCHANGED <<otherFrames, bootVars, gets, createRejected>>
    /\ UNCHANGED <<rooms, wsRoomCode, readyState, joinTasks, sessions, questions,
                   nextQuestionId, asks, sent, joinLog, joinFrames, closeEvents, incFailures>>

\* the route as first written, `app.delete('/api/questions/:id', async ...)`
\* with no middleware before the handler: whoever calls reaches the store
DeleteReceiveFirst(id, valid, authed) ==
    /\ Len(deletes) < MaxConcurrentDeletes
    /\ deletes' = Append(deletes,
           [id |-> id, valid |-> valid, authed |-> authed,
            pc |-> IF valid THEN "findByIdAndDelete" ELSE "done",
            status |-> IF ~valid THEN 400 ELSE 0,
            deleted |-> FALSE, sessionId |-> 0, audience |-> {}])
    /\ UNCHANGED <<otherFrames, bootVars, gets, createRejected>>
    /\ UNCHANGED <<rooms, wsRoomCode, readyState, joinTasks, sessions, questions,
                   nextQuestionId, asks, sent, joinLog, joinFrames, closeEvents, incFailures>>

\* a route that reads the question with findById and leaves the removal for
\* later: the document is still there for the next request
DeleteCommitFindOnly(j, ok) ==
    /\ j \in 1..Len(deletes)
    /\ deletes[j].pc = "findByIdAndDelete"
    /\ LET found == FindQuestionById(questions, deletes[j].id)
       IN IF ~ok
          THEN /\ deletes' = [deletes EXCEPT ![j].pc = "done", ![j].status = 500]
               /\ questions' = questions
          ELSE IF found = {}
          THEN /\ deletes' = [deletes EXCEPT ![j].pc = "done", ![j].status = 404]
               /\ questions' = questions
          ELSE /\ questions' = questions
               /\ deletes' = [deletes EXCEPT
                      ![j].pc = "findById", ![j].deleted = TRUE,
                      ![j].sessionId = (CHOOSE q \in found : TRUE).sessionId]
    /\ UNCHANGED <<otherFrames, bootVars, gets, createRejected>>
    /\ UNCHANGED <<rooms, wsRoomCode, readyState, joinTasks, sessions, nextQuestionId,
                   asks, sent, joinLog, joinFrames, closeEvents, incFailures>>

\* a route that removes with deleteMany({ sessionId }): every question of the
\* owner of the one named goes
DeleteCommitWholeSession(j, ok) ==
    /\ j \in 1..Len(deletes)
    /\ deletes[j].pc = "findByIdAndDelete"
    /\ LET found == FindQuestionById(questions, deletes[j].id)
       IN IF ~ok
          THEN /\ deletes' = [deletes EXCEPT ![j].pc = "done", ![j].status = 500]
               /\ questions' = questions
          ELSE IF found = {}
          THEN /\ deletes' = [deletes EXCEPT ![j].pc = "done", ![j].status = 404]
               /\ questions' = questions
          ELSE /\ questions' = {q \in questions : \A f \in found : q.sessionId # f.sessionId}
               /\ deletes' = [deletes EXCEPT
                      ![j].pc = "findById", ![j].deleted = TRUE,
                      ![j].sessionId = (CHOOSE q \in found : TRUE).sessionId]
    /\ UNCHANGED <<otherFrames, bootVars, gets, createRejected>>
    /\ UNCHANGED <<rooms, wsRoomCode, readyState, joinTasks, sessions, nextQuestionId,
                   asks, sent, joinLog, joinFrames, closeEvents, incFailures>>

\* the store runs findByIdAndDelete (ok) or rejects it (catch: 500); null is 404
DeleteCommit(j, ok) ==
    /\ j \in 1..Len(deletes)
    /\ deletes[j].pc = "findByIdAndDelete"
    /\ LET found == FindQuestionById(questions, deletes[j].id)
       IN IF ~ok
          THEN /\ deletes' = [deletes EXCEPT ![j].pc = "done", ![j].status = 500]
               /\ questions' = questions
          ELSE IF found = {}
          THEN /\ deletes' = [deletes EXCEPT ![j].pc = "done", ![j].status = 404]
               /\ questions' = questions
          ELSE /\ questions' = questions \ found
               /\ deletes' = [deletes EXCEPT
                      ![j].pc = "findById", ![j].deleted = TRUE,
                      ![j].sessionId = (CHOOSE q \in found : TRUE).sessionId]
    /\ UNCHANGED <<otherFrames, bootVars, gets, createRejected>>
    /\ UNCHANGED <<rooms, wsRoomCode, readyState, joinTasks, sessions, nextQuestionId,
                   asks, sent, joinLog, joinFrames, closeEvents, incFailures>>

\* a route that announces the deletion in every room
DeleteFindByIdDoneEveryRoom(j, ok) ==
    /\ j \in 1..Len(deletes)
    /\ deletes[j].pc = "findById"
    /\ IF ok
       THEN /\ sent' = [c \in Conns |->
                           IF \E r \in DOMAIN rooms : c \in OpenMembers(r)
                           THEN Append(sent[c], QuestionDeletedEvent(deletes[j].id))
                           ELSE sent[c]]
            /\ deletes' = [deletes EXCEPT ![j].pc = "done", ![j].status = 200,
                              ![j].audience = OpenMembers(sessions[deletes[j].sessionId].code)]
       ELSE /\ sent' = sent
            /\ deletes' = [deletes EXCEPT ![j].pc = "done", ![j].status = 500]
    /\ UNCHANGED <<otherFrames, bootVars, gets, createRejected>>
    /\ UNCHANGED <<rooms, wsRoomCode, readyState, joinTasks, sessions, questions,
                   nextQuestionId, asks, joinLog, joinFrames, closeEvents, incFailures>>

\* after `await Session.findById(deletedQuestion.sessionId)`: sessions are never
\* removed, so the lookup finds the owner; broadcast to its room, respond 200.
\* A rejected lookup reaches the catch: 500
DeleteFindByIdDone(j, ok) ==
    /\ j \in 1..Len(deletes)
    /\ deletes[j].pc = "findById"
    /\ IF ok
       THEN LET code == sessions[deletes[j].sessionId].code
            IN /\ sent' = broadcastToRoom(rooms, readyState, sent, code,
                                          QuestionDeletedEvent(deletes[j].id))
               \* history: the open members of the owner's room at the broadcast
               /\ deletes' = [deletes EXCEPT ![j].pc = "done", ![j].status = 200,
                                 ![j].audience = OpenMembers(code)]
       ELSE /\ sent' = sent
            /\ deletes' = [deletes EXCEPT ![j].pc = "done", ![j].status = 500]
    /\ UNCHANGED <<otherFrames, bootVars, gets, createRejected>>
    /\ UNCHANGED <<rooms, wsRoomCode, readyState, joinTasks, sessions, questions,
                   nextQuestionId, asks, joinLog, joinFrames, closeEvents, incFailures>>

\* ---------------------------------------------------------------- GET /api/sessions/:code
\* createdAt is Date.now when the document is built, which is when the model
\* assigns its _id: the order of ids is the order of createdAt
RECURSIVE SortByCreatedAt(_)
SortByCreatedAt(qs) ==
    IF qs = {} THEN <<>>
    ELSE LET oldest == CHOOSE q \in qs : \A p \in qs : q.id <= p.id
         IN <<oldest>> \o SortByCreatedAt(qs \ {oldest})

Reverse(seq) == [k \in 1..Len(seq) |-> seq[Len(seq) + 1 - k]]

\* Question.find({ sessionId })
FindQuestionsOfSession(qs, s) == {q \in qs : q.sessionId = s}

\* the route up to `await Session.findOne(...)`
GetReceive(code) ==
    /\ Len(gets) < MaxGets
    /\ gets' = Append(gets, [code |-> code, pc |-> "findOne", status |-> 0,
                             session |-> 0, questions |-> <<>>])
    /\ UNCHANGED <<deletes, otherFrames, bootVars, createRejected>>
    /\ UNCHANGED <<rooms, wsRoomCode, readyState, joinTasks, sessions, questions,
                   nextQuestionId, asks, sent, joinLog, joinFrames, closeEvents, incFailures>>

\* the findOne resolved (null: 404) or rejected (catch: 500)
GetFindOneDone(g, ok) ==
    /\ g \in 1..Len(gets)
    /\ gets[g].pc = "findOne"
    /\ LET s == FindOneSession(sessions, gets[g].code)
       IN gets' = IF ~ok THEN [gets EXCEPT ![g].pc = "done", ![g].status = 500]
                  ELSE IF s = 0 THEN [gets EXCEPT ![g].pc = "done", ![g].status = 404]
                  ELSE [gets EXCEPT ![g].pc = "find", ![g].session = s]
    /\ UNCHANGED <<deletes, otherFrames, bootVars, createRejected>>
    /\ UNCHANGED <<rooms, wsRoomCode, readyState, joinTasks, sessions, questions,
                   nextQuestionId, asks, sent, joinLog, joinFrames, closeEvents, incFailures>>

\* Question.find(...).sort({ createdAt: -1 }), as in the revisions of
\* src/unnamed: newest first
GetFindDoneNewestFirst(g, ok) ==
    /\ g \in 1..Len(gets)
    /\ gets[g].pc = "find"
    /\ gets' = IF ok
               THEN [gets EXCEPT ![g].pc = "done", ![g].status = 200,
                        ![g].questions =
                            Reverse(SortByCreatedAt(FindQuestionsOfSession(questions, gets[g].session)))]
               ELSE [gets EXCEPT ![g].pc = "done", ![g].status = 500]
    /\ UNCHANGED <<deletes, otherFrames, bootVars, createRejected>>
    /\ UNCHANGED <<rooms, wsRoomCode, readyState, joinTasks, sessions, questions,
                   nextQuestionId, asks, sent, joinLog, joinFrames, closeEvents, incFailures>>

\* Question.find({ sessionId: session._id }).sort({ createdAt: 1 }).lean(), then
\* res.json({ session, questions }); a rejected query reaches the catch: 500
GetFindDone(g, ok) ==
    /\ g \in 1..Len(gets)
    /\ gets[g].pc = "find"
    /\ gets' = IF ok
               THEN [gets EXCEPT ![g].pc = "done", ![g].status = 200,
                        ![g].questions =
                            SortByCreatedAt(FindQuestionsOfSession(questions, gets[g].session))]
               ELSE [gets EXCEPT ![g].pc = "done", ![g].status = 500]
    /\ UNCHANGED <<deletes, otherFrames, bootVars, createRejected>>
    /\ UNCHANGED <<rooms, wsRoomCode, readyState, joinTasks, sessions, questions,
                   nextQuestionId, asks, sent, joinLog, joinFrames, closeEvents, incFailures>>

\* a store that already holds two sessions and three questions, as three
\* submissions leave it
StoredQuestions ==
    {[id |-> 1, text |-> "Hi", name |-> "Alice", sessionId |-> 1, ipAddress |-> "ip1"],
     [id |-> 2, text |-> "Hi", name |-> Anonymous, sessionId |-> 1, ipAddress |-> "ip1"],
     [id |-> 3, text |-> "Hi", name |-> "Alice", sessionId |-> 2, ipAddress |-> "ip1"]}

InitStored ==
    /\ rooms = <<>>
    /\ wsRoomCode = [c \in Conns |-> undefined]
    /\ readyState = [c \in Conns |-> "CONNECTING"]
    /\ joinTasks = [c \in Conns |-> <<>>]
    /\ sessions = <<[code |-> "A", totalConnections |-> 0],
                    [code |-> "B", totalConnections |-> 0]>>
    /\ questions = StoredQuestions
    /\ nextQuestionId = Cardinality(StoredQuestions) + 1
    /\ asks = <<>>
    /\ sent = [c \in Conns |-> <<>>]
    /\ joinLog = [c \in Conns |-> {}]
    /\ joinFrames = 0
    /\ closeEvents = [c \in Conns |-> 0]
    /\ incFailures = {}
    /\ deletes = <<>>
    /\ otherFrames = <<>>
    /\ dbState = "connected"
    /\ listening = TRUE
    /\ exited = FALSE
    /\ gets = <<>>
    /\ createRejected = {}

\* ---------------------------------------------------------------- start-up
\* the state as the module starts to load: mongoose.connect() has been called
\* and is pending, nothing listens yet
InitBoot ==
    /\ rooms = <<>>
    /\ wsRoomCode = [c \in Conns |-> undefined]
    /\ readyState = [c \in Conns |-> "CONNECTING"]
    /\ joinTasks = [c \in Conns |-> <<>>]
    /\ sessions = <<>>
    /\ questions = {}
    /\ nextQuestionId = 1
    /\ asks = <<>>
    /\ sent = [c \in Conns |-> <<>>]
    /\ joinLog = [c \in Conns |-> {}]
    /\ joinFrames = 0
    /\ closeEvents = [c \in Conns |-> 0]
    /\ incFailures = {}
    /\ deletes = <<>>
    /\ otherFrames = <<>>
    /\ dbState = "connecting"
    /\ listening = FALSE
    /\ exited = FALSE
    /\ gets = <<>>
    /\ createRejected = {}

\* server.listen(PORT, ...) at the end of the module: runs in the same tick as
\* the connect call, whatever the state of the connection
Listen ==
    /\ ~listening /\ ~exited
    /\ listening' = TRUE
    /\ UNCHANGED <<dbState, exited, deletes, otherFrames, gets, createRejected>>
    /\ UNCHANGED <<rooms, wsRoomCode, readyState, joinTasks, sessions, questions,
                   nextQuestionId, asks, sent, joinLog, joinFrames, closeEvents, incFailures>>

\* the connect promise settles, in a later tick than the module's own code:
\* .then logs, .catch logs and calls process.exit(1)
ConnectSettled(ok) ==
    /\ dbState = "connecting" /\ listening /\ ~exited
    /\ dbState' = IF ok THEN "connected" ELSE "failed"
    /\ exited' = ~ok
    /\ UNCHANGED <<listening, deletes, otherFrames, gets, createRejected>>
    /\ UNCHANGED <<rooms, wsRoomCode, readyState, joinTasks, sessions, questions,
                   nextQuestionId, asks, sent, joinLog, joinFrames, closeEvents, incFailures>>

\* the process accepts connections and runs handlers
Serving == listening /\ ~exited

\* ---------------------------------------------------------------- specification
\* the codes nanoid can draw without hitting the unique index
FreshCodes == {code \in Codes : \A k \in 1..Len(sessions) : sessions[k].code # code}

\* the WebSocket server and the room table
WsNext ==
    \/ \E c \in Conns : Connection(c)
    \/ \E c \in Conns : TransportClosing(c)
    \/ \E c \in Conns, frame \in JoinFrames : Message(c, frame)
    \/ \E c \in Conns, i \in 1..MaxJoinFrames, ok \in BOOLEAN : JoinResume(c, i, ok)
    \/ \E c \in Conns : Close(c)

Next ==
    \/ WsNext
    \/ \E code \in FreshCodes : CreateSession(code)

Spec == Init /\ [][Next]_vars

\* the submission route next to the WebSocket server, for AskConns handles
AskConns == 1..NumAskConns

AskNext ==
    \/ \E c \in AskConns : Connection(c)
    \/ \E c \in AskConns : TransportClosing(c)
    \/ \E c \in AskConns, frame \in JoinFrames : Message(c, frame)
    \/ \E c \in AskConns, i \in 1..MaxJoinFrames, ok \in BOOLEAN : JoinResume(c, i, ok)
    \/ \E c \in AskConns : Close(c)
    \/ \E code \in FreshCodes : CreateSession(code)
    \/ \E code \in Codes, question \in Texts, name \in Names, ip \in Ips :
           AskReceive(code, question, name, ip)
    \/ \E i \in 1..MaxAsks, ok \in BOOLEAN : AskFindOneDone(i, ok)
    \/ \E i \in 1..MaxAsks, ok \in BOOLEAN : AskSaveCommit(i, ok)
    \/ \E i \in 1..MaxAsks : AskSaveDone(i)

SpecAsk == Init /\ [][AskNext]_vars

\* the message handler under every kind of frame, for FrameConns handles
FrameConns == 1..NumFrameConns

FramesNext ==
    \/ \E c \in FrameConns : Connection(c)
    \/ \E c \in FrameConns : TransportClosing(c)
    \/ \E c \in FrameConns, frame \in Frames : Message(c, frame)
    \/ \E c \in FrameConns, i \in 1..MaxJoinFrames, ok \in BOOLEAN : JoinResume(c, i, ok)
    \/ \E c \in FrameConns : Close(c)
    \/ \E code \in FreshCodes : CreateSession(code)

SpecFrames == Init /\ [][FramesNext]_vars

\* the first revision of the submission route next to joins
AskFirstNext ==
    \/ \E c \in AskConns : Connection(c)
    \/ \E c \in AskConns, frame \in JoinFrames : Message(c, frame)
    \/ \E c \in AskConns : JoinResume(c, 1, TRUE)
    \/ \E code \in FreshCodes : CreateSession(code)
    \/ \E code \in Codes, question \in Texts, name \in Names, ip \in Ips :
           AskReceive(code, question, name, ip)
    \/ \E i \in 1..MaxAsks, ok \in BOOLEAN : AskFindOneDoneFirst(i, ok)
    \/ \E i \in 1..MaxAsks, ok \in BOOLEAN : AskSaveCommitFirst(i, ok)
    \/ \E i \in 1..MaxAsks : AskSaveDone(i)

SpecAskFirst == Init /\ [][AskFirstNext]_vars

\* the submission route under every name and address, next to joins
SubmitNext ==
    \/ \E c \in AskConns : Connection(c)
    \/ \E c \in AskConns, frame \in JoinFrames : Message(c, frame)
    \/ \E c \in AskConns : JoinResume(c, 1, TRUE)
    \/ \E code \in FreshCodes : CreateSession(code)
    \/ \E code \in Codes, question \in Texts, name \in AskNames, ip \in AskIps :
           AskReceive(code, question, name, ip)
    \/ \E i \in 1..MaxAsks, ok \in BOOLEAN : AskFindOneDone(i, ok)
    \/ \E i \in 1..MaxAsks, ok \in BOOLEAN : AskSaveCommit(i, ok)
    \/ \E i \in 1..MaxAsks : AskSaveDone(i)

SpecSubmit == Init /\ [][SubmitNext]_vars

\* the process from its start: handlers run once the server listens, and a
\* store command issued before the connection is up is buffered by mongoose
\* until it is (or is rejected when the buffer times out)
BootConns == 1..NumBootConns

BootNext ==
    \/ Listen
    \/ \E ok \in BOOLEAN : ConnectSettled(ok)
    \/ \E c \in BootConns : Serving /\ Connection(c)
    \/ \E c \in BootConns, frame \in JoinFrames : Serving /\ Message(c, frame)
    \/ \E c \in BootConns, i \in 1..MaxJoinFrames, ok \in BOOLEAN :
           Serving /\ (ok => dbState = "connected") /\ JoinResume(c, i, ok)
    \/ \E c \in BootConns : Serving /\ closeEvents[c] = 0 /\ Close(c)
    \/ \E code \in FreshCodes : Serving /\ dbState = "connected" /\ CreateSession(code)

SpecBoot == InitBoot /\ [][BootNext]_vars

\* the submission and deletion routes next to the WebSocket server: QuestionConns
\* handles, whose increments resolve, closing once
QuestionConns == 1..NumQuestionConns
QuestionIds == 1..(MaxAsks + 1)     \* _ids a DELETE may name; the last is never assigned

QuestionsNext ==
    \/ \E c \in QuestionConns : Connection(c)
    \/ \E c \in QuestionConns, frame \in JoinFrames : Message(c, frame)
    \/ \E c \in QuestionConns : JoinResume(c, 1, TRUE)
    \/ \E c \in QuestionConns : closeEvents[c] = 0 /\ Close(c)
    \/ \E code \in FreshCodes : CreateSession(code)
    \/ \E code \in Codes, question \in Texts, ip \in Ips :
           AskReceive(code, question, "Alice", ip)
    \/ \E i \in 1..MaxAsks, ok \in BOOLEAN : AskFindOneDone(i, ok)
    \/ \E i \in 1..MaxAsks, ok \in BOOLEAN : AskSaveCommit(i, ok)
    \/ \E i \in 1..MaxAsks : AskSaveDone(i)
    \/ \E id \in QuestionIds : Len(deletes) < MaxDeletes /\ DeleteReceive(id, TRUE, TRUE)
    \/ Len(deletes) < MaxDeletes /\ DeleteReceive(0, FALSE, TRUE)
    \/ Len(deletes) < MaxDeletes /\ DeleteReceive(1, TRUE, FALSE)
    \/ \E j \in 1..MaxDeletes, ok \in BOOLEAN : DeleteCommit(j, ok)
    \/ \E j \in 1..MaxDeletes, ok \in BOOLEAN : DeleteFindByIdDone(j, ok)

SpecQuestions == Init /\ [][QuestionsNext]_vars

\* the first revision of the submission and deletion routes next to joins
DeleteFirstNext ==
    \/ \E c \in AskConns : Connection(c)
    \/ \E c \in AskConns, frame \in JoinFrames : Message(c, frame)
    \/ \E c \in AskConns : JoinResume(c, 1, TRUE)
    \/ \E code \in FreshCodes : CreateSession(code)
    \/ \E code \in Codes, question \in Texts, name \in Names, ip \in Ips :
           AskReceive(code, question, name, ip)
    \/ \E i \in 1..MaxAsks : AskFindOneDoneFirst(i, TRUE)
    \/ \E i \in 1..MaxAsks : AskSaveCommitFirst(i, TRUE)
    \/ \E i \in 1..MaxAsks : AskSaveDone(i)
    \/ \E id \in QuestionIds, authed \in BOOLEAN :
           Len(deletes) < MaxDeletes /\ DeleteReceiveFirst(id, TRUE, authed)
    \/ \E authed \in BOOLEAN : Len(deletes) < MaxDeletes /\ DeleteReceiveFirst(0, FALSE, authed)
    \/ \E j \in 1..MaxDeletes, ok \in BOOLEAN : DeleteCommit(j, ok)
    \/ \E j \in 1..MaxDeletes, ok \in BOOLEAN : DeleteFindByIdDone(j, ok)

SpecDeleteFirst == Init /\ [][DeleteFirstNext]_vars

\* session creation under every code nanoid can draw, taken or not, next to
\* joins, a submission and a deletion
SessionsNext ==
    \/ \E c \in AskConns : Connection(c)
    \/ \E c \in AskConns, frame \in JoinFrames : Message(c, frame)
    \/ \E c \in AskConns : JoinResume(c, 1, TRUE)
    \/ \E code \in Codes : Len(sessions) < MaxSessions /\ CreateSession(code)
    \/ \E code \in Codes : AskReceive(code, "Hi", "Alice", "ip1")
    \/ \E i \in 1..MaxAsks : AskFindOneDone(i, TRUE)
    \/ \E i \in 1..MaxAsks : AskSaveCommit(i, TRUE)
    \/ \E i \in 1..MaxAsks : AskSaveDone(i)
    \/ Len(deletes) < MaxDeletes /\ DeleteReceive(1, TRUE, TRUE)
    \/ \E j \in 1..MaxDeletes : DeleteCommit(j, TRUE)
    \/ \E j \in 1..MaxDeletes : DeleteFindByIdDone(j, TRUE)

SpecSessions == Init /\ [][SessionsNext]_vars

\* the routes over a store that holds questions: a read next to one more
\* submission, a deletion and joins
GetCodes == Codes \cup {"Z"}     \* "Z" is a code no session has
StoredIds == 1..(Cardinality(StoredQuestions) + MaxAsks)

StoredNext ==
    \/ \E c \in AskConns : Connection(c)
    \/ \E c \in AskConns, frame \in JoinFrames : Message(c, frame)
    \/ \E c \in AskConns : JoinResume(c, 1, TRUE)
    \/ \E code \in Codes : AskReceive(code, "Hi", "Alice", "ip1")
    \/ \E i \in 1..MaxAsks : AskFindOneDone(i, TRUE)
    \/ \E i \in 1..MaxAsks : AskSaveCommit(i, TRUE)
    \/ \E i \in 1..MaxAsks : AskSaveDone(i)
    \/ \E id \in StoredIds : Len(deletes) < MaxDeletes /\ DeleteReceive(id, TRUE, TRUE)
    \/ \E j \in 1..MaxDeletes : DeleteCommit(j, TRUE)
    \/ \E j \in 1..MaxDeletes : DeleteFindByIdDone(j, TRUE)

GetNext ==
    \/ StoredNext
    \/ \E code \in GetCodes : GetReceive(code)
    \/ \E g \in 1..MaxGets, ok \in BOOLEAN : GetFindOneDone(g, ok)
    \/ \E g \in 1..MaxGets, ok \in BOOLEAN : GetFindDone(g, ok)

SpecGet == InitStored /\ [][GetNext]_vars

\* the same with the read of the revisions of src/unnamed
GetNewestFirstNext ==
    \/ StoredNext
    \/ \E code \in GetCodes : GetReceive(code)
    \/ \E g \in 1..MaxGets, ok \in BOOLEAN : GetFindOneDone(g, ok)
    \/ \E g \in 1..MaxGets, ok \in BOOLEAN : GetFindDoneNewestFirst(g, ok)

SpecGetNewestFirst == InitStored /\ [][GetNewestFirstNext]_vars

\* deletions side by side over the stored questions of session A, next to
\* joins and leaves; every store call resolves
DeleteTwiceIds == {q.id : q \in {p \in StoredQuestions : p.sessionId = 1}}

DeleteTwiceNext ==
    \/ \E c \in AskConns : Connection(c)
    \/ \E c \in AskConns, frame \in JoinFrames : Message(c, frame)
    \/ \E c \in AskConns : JoinResume(c, 1, TRUE)
    \/ \E c \in AskConns : closeEvents[c] = 0 /\ Close(c)
    \/ \E id \in DeleteTwiceIds : DeleteReceive(id, TRUE, TRUE)
    \/ \E j \in 1..MaxConcurrentDeletes : DeleteCommit(j, TRUE)
    \/ \E j \in 1..MaxConcurrentDeletes : DeleteFindByIdDone(j, TRUE)

SpecDeleteTwice == InitStored /\ [][DeleteTwiceNext]_vars

\* ---------------------------------------------------------------- the room-less revision
\* src/unnamed/part_004: no rooms, no Sessions; POST /ask saves the question and
\* sends it to every client of the WebSocket server
LegacyQuestions == Texts \cup {"", undefined}     \* req.body.question

\* wss.clients.forEach(client => { if (client.readyState === OPEN) client.send(...) })
ClientsForEachSend(rs, out, data) ==
    [c \in DOMAIN out |-> IF rs[c] = "OPEN" THEN Append(out[c], data) ELSE out[c]]

\* the payload of the revision: text and name, no _id
LegacyNewQuestionEvent(q) ==
    [type |-> "new_question", payload |-> [text |-> q.text, name |-> q.name]]

\* new Question({ text: question, name: name || '匿名' })
LegacyQuestionDoc(a) ==
    [id |-> a.newQuestion, text |-> a.question,
     name |-> IF a.name \in {"", undefined} THEN Anonymous ELSE a.name]

\* ws.on('close') of the revision: it logs
LegacyClose(c) ==
    /\ readyState[c] # "CONNECTING"
    /\ closeEvents[c] = 0
    /\ readyState' = [readyState EXCEPT ![c] = "CLOSED"]
    /\ closeEvents' = [closeEvents EXCEPT ![c] = @ + 1]
    /\ UNCHANGED <<deletes, otherFrames, bootVars, gets, createRejected>>
    /\ UNCHANGED <<rooms, wsRoomCode, joinTasks, sessions, questions, nextQuestionId, asks,
                   sent, joinLog, joinFrames, incFailures>>

\* app.post('/ask') up to `await newQuestion.save()`: a falsy question is
\* answered 400 at once
LegacyAskReceive(question, name) ==
    /\ Len(asks) < MaxAsks
    /\ IF question \in {"", undefined}
       THEN /\ asks' = Append(asks, [question |-> question, name |-> name, pc |-> "done",
                                     status |-> 400, newQuestion |-> 0, saved |-> FALSE,
                                     audience |-> {}])
            /\ nextQuestionId' = nextQuestionId
       ELSE /\ asks' = Append(asks, [question |-> question, name |-> name, pc |-> "save",
                                     status |-> 0, newQuestion |-> nextQuestionId,
                                     saved |-> FALSE, audience |-> {}])
            /\ nextQuestionId' = nextQuestionId + 1
    /\ UNCHANGED <<deletes, otherFrames, bootVars, gets, createRejected>>
    /\ UNCHANGED <<rooms, wsRoomCode, readyState, joinTasks, sessions, questions,
                   sent, joinLog, joinFrames, closeEvents, incFailures>>

\* a route that logs a failed save and carries on
LegacyAskSaveCommitSwallow(i, ok) ==
    /\ i \in 1..Len(asks)
    /\ asks[i].pc = "save"
    /\ IF ok
       THEN /\ questions' = questions \cup {LegacyQuestionDoc(asks[i])}
            /\ asks' = [asks EXCEPT ![i].pc = "saved", ![i].saved = TRUE]
       ELSE /\ questions' = questions
            /\ asks' = [asks EXCEPT ![i].pc = "saved"]
    /\ UNCHANGED <<deletes, otherFrames, bootVars, gets, createRejected>>
    /\ UNCHANGED <<rooms, wsRoomCode, readyState, joinTasks, sessions, nextQuestionId,
                   sent, joinLog, joinFrames, closeEvents, incFailures>>

\* the store runs the save (ok) or rejects it: the catch answers 500
LegacyAskSaveCommit(i, ok) ==
    /\ i \in 1..Len(asks)
    /\ asks[i].pc = "save"
    /\ IF ok
       THEN /\ questions' = questions \cup {LegacyQuestionDoc(asks[i])}
            /\ asks' = [asks EXCEPT ![i].pc = "saved", ![i].saved = TRUE]
       ELSE /\ questions' = questions
            /\ asks' = [asks EXCEPT ![i].pc = "done", ![i].status = 500]
    /\ UNCHANGED <<deletes, otherFrames, bootVars, gets, createRejected>>
    /\ UNCHANGED <<rooms, wsRoomCode, readyState, joinTasks, sessions, nextQuestionId,
                   sent, joinLog, joinFrames, closeEvents, incFailures>>

\* after the await: send to every open client, answer 200
LegacyAskSaveDone(i) ==
    /\ i \in 1..Len(asks)
    /\ asks[i].pc = "saved"
    /\ sent' = ClientsForEachSend(readyState, sent,
                                  LegacyNewQuestionEvent(LegacyQuestionDoc(asks[i])))
    /\ asks' = [asks EXCEPT ![i].pc = "done", ![i].status = 200,
                            ![i].audience = {c \in Conns : readyState[c] = "OPEN"}]
    /\ UNCHANGED <<deletes, otherFrames, bootVars, gets, createRejected>>
    /\ UNCHANGED <<rooms, wsRoomCode, readyState, joinTasks, sessions, questions,
                   nextQuestionId, joinLog, joinFrames, closeEvents, incFailures>>

LegacyNext ==
    \/ \E c \in Conns : Connection(c)
    \/ \E c \in Conns : TransportClosing(c)
    \/ \E c \in Conns : LegacyClose(c)
    \/ \E question \in LegacyQuestions, name \in AskNames : LegacyAskReceive(question, name)
    \/ \E i \in 1..MaxAsks, ok \in BOOLEAN : LegacyAskSaveCommit(i, ok)
    \/ \E i \in 1..MaxAsks : LegacyAskSaveDone(i)

SpecLegacy == Init /\ [][LegacyNext]_vars

\* ---------------------------------------------------------------- properties
Members(r) == IF RoomsHas(rooms, r) THEN SeqToSet(rooms[r]) ELSE {}
LiveCount(r) == IF RoomsHas(rooms, r) THEN Len(rooms[r]) ELSE 0
RoomsOf(c) == {r \in DOMAIN rooms : c \in SeqToSet(rooms[r])}
\* the handles that sent a join for r and have seen no close event
Outstanding(r) == {c \in Conns : r \in joinLog[c] /\ closeEvents[c] = 0}
\* no handle has named two different rooms in its join frames
NoRejoinElsewhere == \A c \in Conns : Cardinality(joinLog[c]) <= 1
\* the step is a resumed join of handle c
IsJoinResume(c) == Len(joinTasks'[c]) < Len(joinTasks[c])
\* the step is a close event of handle c
IsClose(c) == closeEvents'[c] = closeEvents[c] + 1

\* C1: for every room code the live count (size of rooms[r], 0 without an
\* entry) equals the number of handles that joined r and have not yet
\* disconnected, and is never negative.
C1_LiveCountIsNetJoins ==
    \A r \in Codes : LiveCount(r) >= 0 /\ LiveCount(r) = Cardinality(Outstanding(r))

\* the same count, as long as no handle joined a second, different room
LiveCountIsNetJoinsWithoutRejoin ==
    NoRejoinElsewhere => C1_LiveCountIsNetJoins

\* C2: every handle is a member of at most one room's set, also after a join
\* for room A followed by a join for a different room B.
C2_AtMostOneRoom ==
    \A c \in Conns : Cardinality(RoomsOf(c)) <= 1

\* C3: once a handle's close event has been processed it is a member of no
\* room's set, whatever joins it sent before.
C3_ClosedInNoRoom ==
    \A c \in Conns : closeEvents[c] > 0 => RoomsOf(c) = {}

\* C4: a new_question frame is written only for a message whose save has
\* completed successfully; a request whose save failed has no new_question
\* frame with its message id at any handle.
NewQuestionIdsAt(c) ==
    {sent[c][k].payload.id : k \in {j \in 1..Len(sent[c]) : sent[c][j].type = "new_question"}}

C4_BroadcastOnlyAfterSave ==
    /\ \A c \in Conns : \A id \in NewQuestionIdsAt(c) :
           \E i \in 1..Len(asks) : asks[i].newQuestion = id /\ asks[i].saved
    /\ \A i \in 1..Len(asks) :
           (asks[i].pc = "done" /\ ~asks[i].saved) =>
               \A c \in Conns : asks[i].newQuestion \notin NewQuestionIdsAt(c)

\* a member of the room received the new_question of a saved message
W4_SavedThenBroadcast ==
    \E i \in 1..Len(asks) : \E c \in Conns :
        /\ asks[i].saved /\ asks[i].status = 200
        /\ asks[i].newQuestion \in NewQuestionIdsAt(c)

\* C5: a submission whose code resolves to no persisted Room answers 404,
\* persists no Question and writes no frame to any handle, also while handles
\* are joined to that code in memory.
NoSessionWithCode(code) == \A k \in 1..Len(sessions) : sessions[k].code # code

C5_RoomNotFound ==
    [][\A i \in 1..Len(asks) :
         ( /\ asks[i].pc = "findOne" /\ asks'[i].pc # "findOne"
           /\ asks'[i].lookup # "rejected"
           /\ NoSessionWithCode(asks[i].code) )
         => /\ asks'[i].status = 404 /\ asks'[i].pc = "done"
            /\ asks'[i].newQuestion = 0
            /\ questions' = questions
            /\ sent' = sent]_vars

\* a 404 was answered while open handles were joined to the code in memory
W5_NotFoundWhileJoined ==
    \E i \in 1..Len(asks) :
        /\ asks[i].status = 404
        /\ asks[i].lookup = "null"
        /\ asks[i].audience # {}

\* C6: a join whose counter increment fails completes like one whose increment
\* succeeds: every resumed join writes the room's live count to the room.
C6_JoinCompletesWithoutIncrement ==
    [][\A c \in Conns : IsJoinResume(c) =>
         \E i \in 1..Len(joinTasks[c]) :
            /\ joinTasks'[c] = RemoveAt(joinTasks[c], i)
            /\ sent' = broadcastToRoom(rooms, readyState, sent, joinTasks[c][i],
                                       CountUpdate(LiveCount(joinTasks[c][i])))]_vars

\* C7: two handles that join the same, previously empty room receive
\* non-decreasing client_count_update counts, and once both joins have run to
\* their broadcast the last count each received is 2.
CountsAt(c) == SelectSeq(sent[c], LAMBDA e : e.type = "client_count_update")
NonDecreasing(s) == \A k \in 1..(Len(s) - 1) : s[k].count <= s[k + 1].count
\* a and b are the only handles that ever joined r, they joined nothing else,
\* and both are still open
JoinedPair(r, a, b) ==
    /\ a # b
    /\ joinLog[a] = {r} /\ joinLog[b] = {r}
    /\ \A c \in Conns \ {a, b} : r \notin joinLog[c]
    /\ closeEvents[a] = 0 /\ closeEvents[b] = 0
    /\ readyState[a] = "OPEN" /\ readyState[b] = "OPEN"
\* both joins have persisted their increment and broadcast
PairSettled(r, a, b) ==
    joinTasks[a] = <<>> /\ joinTasks[b] = <<>> /\ r \notin incFailures

C7_ConcurrentJoinsSettleAtTwo ==
    \A r \in Codes : \A a, b \in Conns :
        JoinedPair(r, a, b) =>
            /\ NonDecreasing(CountsAt(a)) /\ NonDecreasing(CountsAt(b))
            /\ PairSettled(r, a, b) =>
                   /\ CountsAt(a) # <<>> /\ CountsAt(a)[Len(CountsAt(a))].count = 2
                   /\ CountsAt(b) # <<>> /\ CountsAt(b)[Len(CountsAt(b))].count = 2

\* both joins were in flight together and have since settled
W7_PairSettledAfterOverlap ==
    \E r \in Codes : \E a, b \in Conns :
        /\ JoinedPair(r, a, b) /\ PairSettled(r, a, b)
        /\ Len(CountsAt(a)) = 2 /\ Len(CountsAt(b)) = 2

\* C8: when a handle closes while its join's increment is in flight, the
\* resumed join changes no membership set (no re-add, no recreated room) and
\* the handle is in no set once the increment has completed.
C8_CloseDuringJoin ==
    [][\A c \in Conns : (closeEvents[c] > 0 /\ IsJoinResume(c)) =>
         /\ rooms' = rooms
         /\ \A r \in DOMAIN rooms' : c \notin SeqToSet(rooms'[r])]_vars

\* the same race for a handle that named one room only
CloseDuringJoinWithoutRejoin ==
    [][\A c \in Conns : (closeEvents[c] > 0 /\ IsJoinResume(c) /\ Cardinality(joinLog[c]) <= 1) =>
         /\ rooms' = rooms
         /\ \A r \in DOMAIN rooms' : c \notin SeqToSet(rooms'[r])]_vars

\* C9: a second close event for a handle is a no-op: no membership set changes
\* and no frame is written, whether or not other members remain.
C9_SecondCloseNoOp ==
    [][\A c \in Conns : (closeEvents[c] >= 1 /\ IsClose(c)) =>
         rooms' = rooms /\ sent' = sent]_vars

\* a second close event changes no membership set
SecondCloseKeepsMembership ==
    [][\A c \in Conns : (closeEvents[c] >= 1 /\ IsClose(c)) => rooms' = rooms]_vars

\* C10: broadcastToRoom on a room that holds a member whose transport is not
\* open writes the frame to every open member, wherever the non-open member
\* stands in the enumeration, and to nobody else.
HasNonOpenMember(r) == \E c \in Members(r) : readyState[c] # "OPEN"

C10_BroadcastSkipsNonOpen ==
    \A r \in DOMAIN rooms : HasNonOpenMember(r) =>
        LET data == CountUpdate(Len(rooms[r]))
            out == broadcastToRoom(rooms, readyState, sent, r, data)
        IN \A c \in Conns :
               out[c] = IF c \in Members(r) /\ readyState[c] = "OPEN"
                        THEN Append(sent[c], data)
                        ELSE sent[c]

\* an open member enumerated after a non-open one holds the room's count,
\* which the non-open member was not sent
W10_DeliveredPastNonOpen ==
    \E r \in DOMAIN rooms : \E i, j \in 1..Len(rooms[r]) :
        /\ i < j
        /\ readyState[rooms[r][i]] # "OPEN" /\ readyState[rooms[r][j]] = "OPEN"
        /\ sent[rooms[r][i]] = <<>>
        /\ sent[rooms[r][j]] # <<>>
        /\ sent[rooms[r][j]][Len(sent[rooms[r][j]])] = CountUpdate(Len(rooms[r]))


\* request j of the DELETE route is answered with status st in this step
DeleteAnswered(j, st) ==
    /\ deletes'[j].pc = "done" /\ deletes'[j].status = st
    /\ j > Len(deletes) \/ deletes[j].pc # "done"

\* the open members of the room whose code the submission of question id named
OwnerAudience(id) ==
    {c \in Conns : /\ readyState[c] = "OPEN"
                   /\ \E i \in 1..Len(asks) :
                          asks[i].newQuestion = id /\ c \in Members(asks[i].code)}

QuestionDeletedFrames(c) == SelectSeq(sent[c], LAMBDA f : f.type = "question_deleted")

\* C11: a DELETE answered 400 named an id that is not an ObjectId, one answered
\* 404 named a valid id with no record, and neither removes a record or sends a
\* frame; the store's removal takes out exactly the record with that id; a
\* DELETE answered 200 removed its record and writes one question_deleted frame
\* to every open member of the owning room, to nobody else; and no other step
\* writes a question_deleted frame.
C11_DeleteOutcomes ==
    [][/\ \A j \in 1..Len(deletes') :
            LET d == deletes'[j]
            IN /\ DeleteAnswered(j, 400) => ~d.valid /\ UNCHANGED <<questions, sent>>
               /\ (j > Len(deletes) /\ d.authed /\ ~d.valid) => DeleteAnswered(j, 400)
               /\ DeleteAnswered(j, 404) =>
                      /\ d.valid /\ ~d.deleted
                      /\ \A q \in questions : q.id # d.id
                      /\ UNCHANGED <<questions, sent>>
               /\ (j <= Len(deletes) /\ d.deleted /\ ~deletes[j].deleted) =>
                      /\ \E q \in questions : q.id = d.id /\ questions' = questions \ {q}
                      /\ sent' = sent
               /\ DeleteAnswered(j, 200) =>
                      /\ d.valid /\ deletes[j].deleted
                      /\ questions' = questions
                      /\ \A c \in Conns :
                             sent'[c] = IF c \in OwnerAudience(d.id)
                                        THEN Append(sent[c], QuestionDeletedEvent(d.id))
                                        ELSE sent[c]
       /\ \A c \in Conns :
            QuestionDeletedFrames(c)' # QuestionDeletedFrames(c) =>
                \E j \in 1..Len(deletes) : DeleteAnswered(j, 200)
      ]_vars

\* a deletion answered 200 reached the owning room while an open member of
\* another room got nothing
W11_DeletedAnnouncedToOwner ==
    \E j \in 1..Len(deletes), c \in Conns :
        /\ deletes[j].status = 200
        /\ deletes[j].audience # {}
        /\ \A q \in questions : q.id # deletes[j].id
        /\ \A a \in deletes[j].audience : Len(QuestionDeletedFrames(a)) = 1
        /\ readyState[c] = "OPEN" /\ wsRoomCode[c] # undefined
        /\ c \notin deletes[j].audience
        /\ QuestionDeletedFrames(c) = <<>>


CountUpdateFrames(c) == SelectSeq(sent[c], LAMBDA f : f.type = "client_count_update")
NewQuestionFrames(c) == SelectSeq(sent[c], LAMBDA f : f.type = "new_question")

\* C12: a step that writes a client_count_update frame to any handle is the
\* continuation of a join or a close event; and a step of the submission or
\* deletion route (one that changes a request or the Question collection)
\* writes no client_count_update frame and leaves the room table and every
\* handle's room association as they were.
C12_CountUpdatesOnlyFromJoinOrClose ==
    [][/\ (\E c \in Conns : CountUpdateFrames(c)' # CountUpdateFrames(c)) =>
              \E d \in Conns : IsJoinResume(d) \/ IsClose(d)
       /\ (asks' # asks \/ deletes' # deletes \/ questions' # questions) =>
              /\ rooms' = rooms
              /\ wsRoomCode' = wsRoomCode
              /\ \A c \in Conns : CountUpdateFrames(c)' = CountUpdateFrames(c)
      ]_vars

\* a member has received a count, a submitted question and its deletion
W12_MemberSawQuestionAndDeletion ==
    \E c \in Conns :
        /\ \E i \in 1..Len(asks) : asks[i].status = 200
        /\ \E j \in 1..Len(deletes) : deletes[j].status = 200
        /\ Len(CountUpdateFrames(c)) = 1
        /\ Len(NewQuestionFrames(c)) = 1
        /\ Len(QuestionDeletedFrames(c)) = 1


\* C13: no room code is mapped to an empty set, before or after any step; an
\* entry appears holding exactly one member, and an entry disappears in a close
\* event of the handle that was its only member.
C13_NoEmptyRoom ==
    [][/\ \A r \in DOMAIN rooms : rooms[r] # <<>>
       /\ \A r \in DOMAIN rooms' : rooms'[r] # <<>>
       /\ \A r \in DOMAIN rooms' \ DOMAIN rooms : Len(rooms'[r]) = 1
       /\ \A r \in DOMAIN rooms \ DOMAIN rooms' :
              \E c \in Conns : IsClose(c) /\ rooms[r] = <<c>>
      ]_vars

\* a room lost its last member and is gone while another room still has members
W13_RoomRemovedWithLastMember ==
    \E c \in Conns :
        /\ closeEvents[c] = 1
        /\ wsRoomCode[c] # undefined
        /\ ~RoomsHas(rooms, wsRoomCode[c])
        /\ DOMAIN rooms # {}


\* this step handles frame f of handle c, which is not a join naming a room
HandledOtherFrame(c, f) ==
    /\ Len(otherFrames') = Len(otherFrames) + 1
    /\ otherFrames'[Len(otherFrames')] = [conn |-> c, frame |-> f]

HandlerState == <<rooms, wsRoomCode, readyState, joinTasks, sessions, sent>>

\* C14: a step that handles a frame JSON.parse throws on changes neither the
\* handle's readyState or room association, nor any membership set, nor any
\* persisted counter, nor the pending continuations, and writes no frame to
\* any handle.
C14_UnparseableFrameDropped ==
    [][\A c \in Conns, f \in Frames :
           (HandledOtherFrame(c, f) /\ ~f.parses) => UNCHANGED HandlerState]_vars

\* an unparseable frame arrived from an open member of a room with a peer and
\* a persisted counter, and the member is open and a member still
W14_DroppedFromMember ==
    \E k \in 1..Len(otherFrames) :
        LET c == otherFrames[k].conn
        IN /\ ~otherFrames[k].frame.parses
           /\ readyState[c] = "OPEN"
           /\ wsRoomCode[c] # undefined
           /\ c \in Members(wsRoomCode[c])
           /\ Len(rooms[wsRoomCode[c]]) = 2
           /\ \E s \in 1..Len(sessions) :
                  sessions[s].code = wsRoomCode[c] /\ sessions[s].totalConnections > 0

\* C15: a step that handles a frame that parses but whose type is not "join",
\* or a join frame that names no room, changes no membership set, no handle's
\* room association or readyState, no persisted counter, and writes no frame.
C15_OtherFramesIgnored ==
    [][\A c \in Conns, f \in Frames :
           (HandledOtherFrame(c, f) /\ f.parses /\ (f.type # "join" \/ f.room = undefined))
               => UNCHANGED HandlerState]_vars

\* a join frame without a room arrived from an open member, which is open and
\* a member of the same room still
W15_JoinWithoutRoomFromMember ==
    \E k \in 1..Len(otherFrames) :
        LET c == otherFrames[k].conn
        IN /\ otherFrames[k].frame.parses
           /\ otherFrames[k].frame.type = "join"
           /\ readyState[c] = "OPEN"
           /\ wsRoomCode[c] # undefined
           /\ c \in Members(wsRoomCode[c])
           /\ \E s \in 1..Len(sessions) :
                  sessions[s].code = wsRoomCode[c] /\ sessions[s].totalConnections > 0

\* a frame of another type arrived from an open member
OtherTypeFromMember ==
    \E k \in 1..Len(otherFrames) :
        /\ otherFrames[k].frame.parses
        /\ otherFrames[k].frame.type # "join"
        /\ wsRoomCode[otherFrames[k].conn] # undefined


\* this step resumes a join of handle c whose frame named room r
ResumesJoinOf(c, r) ==
    \E i \in 1..Len(joinTasks[c]) :
        joinTasks[c][i] = r /\ joinTasks'[c] = RemoveAt(joinTasks[c], i)

\* C16: no step removes a Session or lowers its totalConnections, and a step
\* changes it by at most one; it goes up only in the continuation of a join
\* whose frame named that Session's code; and every such continuation, whether
\* or not the handle was a member already, raises it by exactly one unless the
\* store rejected the increment.
C16_TotalConnectionsCountsJoins ==
    [][/\ Len(sessions') >= Len(sessions)
       /\ \A k \in 1..Len(sessions) :
            LET code == sessions[k].code
                before == sessions[k].totalConnections
                after == sessions'[k].totalConnections
            IN /\ sessions'[k].code = code
               /\ after \in {before, before + 1}
               /\ after = before + 1 => \E c \in Conns : ResumesJoinOf(c, code)
               /\ (\E c \in Conns : ResumesJoinOf(c, code)) =>
                      after = before + 1 \/ code \in incFailures'
      ]_vars

\* one handle joined the same room twice: one member, counter 2
W16_RepeatedJoinCountedTwice ==
    \E c \in Conns, k \in 1..Len(sessions) :
        /\ joinFrames = 2
        /\ joinLog[c] = {sessions[k].code}
        /\ \A d \in Conns \ {c} : joinLog[d] = {}
        /\ joinTasks[c] = <<>>
        /\ incFailures = {}
        /\ rooms[sessions[k].code] = <<c>>
        /\ sessions[k].totalConnections = 2


\* request i has run to its end with the response the outcome calls for
AskAnswered(i) ==
    /\ asks[i].status \in {200, 404, 500}
    /\ asks[i].status = 200 <=> asks[i].saved
    /\ asks[i].status = 404 <=> asks[i].lookup = "null"
    /\ asks[i].status = 500 <=>
           (asks[i].lookup = "rejected" \/ (asks[i].lookup = "found" /\ ~asks[i].saved))

\* C17: every POST /api/ask request whose handler has run to its end has been
\* answered: 200 when the question was saved, 404 when the lookup found no
\* session, 500 when the lookup or the save was rejected.
C17_EveryAskAnswered ==
    \A i \in 1..Len(asks) : asks[i].pc = "done" => AskAnswered(i)

\* no response is written twice: a status, once set, stays
AskAnsweredOnce ==
    [][\A i \in 1..Len(asks) : asks[i].status # 0 => asks'[i].status = asks[i].status]_vars


\* the new_question frames written to any handle
AllNewQuestionFrames ==
    UNION {{NewQuestionFrames(c)[k] : k \in 1..Len(NewQuestionFrames(c))} : c \in Conns}

\* C18: every new_question frame is exactly the type and a payload of the id,
\* text and name of a persisted question, so it is the same whatever address
\* the request came from; the address is in the persisted record of every
\* saved submission, next to its text.
C18_BroadcastWithoutAddress ==
    /\ \A f \in AllNewQuestionFrames :
           \E q \in questions :
               f = [type |-> "new_question",
                    payload |-> [id |-> q.id, text |-> q.text, name |-> q.name]]
    /\ \A i \in 1..Len(asks) :
           asks[i].saved =>
               \E q \in questions : /\ q.id = asks[i].newQuestion
                                    /\ q.text = asks[i].question
                                    /\ q.ipAddress = asks[i].ip

\* a submission from the second address is stored with it and was delivered
W18_AddressStoredNotSent ==
    \E i \in 1..Len(asks), q \in questions, c \in Conns :
        /\ asks[i].status = 200
        /\ asks[i].ip = "ip2"
        /\ q.id = asks[i].newQuestion /\ q.ipAddress = "ip2"
        /\ Len(NewQuestionFrames(c)) = 1
        /\ DOMAIN NewQuestionFrames(c)[1].payload = {"id", "text", "name"}

\* the name the route is to persist for a request body's name
NameOrAnonymous(name) == IF name \in {"", undefined} THEN Anonymous ELSE name

C20_ServeOnlyWhenConnected ==
    /\ listening => dbState = "connected"
    /\ dbState = "failed" => exited
    /\ dbState # "connected" =>
           /\ \A c \in Conns : readyState[c] = "CONNECTING"
           /\ joinFrames = 0

\* a failed connection ends the process
FailedConnectionIsFatal == dbState = "failed" => exited

\* a handle joined a room while the connection was still pending
JoinedWhileConnecting ==
    \E c \in Conns : dbState = "connecting" /\ c \in Members("A")


\* C21: a DELETE request of a caller that did not pass the admin check never
\* reaches the store: it removes no record, is not in flight at either store
\* call and is not answered 200, so no question_deleted frame is sent for it.
C21_UnauthorizedDeleteDoesNothing ==
    \A j \in 1..Len(deletes) :
        ~deletes[j].authed =>
            /\ ~deletes[j].deleted
            /\ deletes[j].pc = "done"
            /\ deletes[j].status # 200
            /\ deletes[j].audience = {}

\* an unauthorized caller's deletion was announced to a member
UnauthorizedDeleteAnnounced ==
    \E j \in 1..Len(deletes), c \in Conns :
        /\ ~deletes[j].authed
        /\ deletes[j].status = 200
        /\ Len(QuestionDeletedFrames(c)) = 1


SessionCodesDistinct(ss) ==
    \A k, l \in 1..Len(ss) : k # l => ss[k].code # ss[l].code

\* C24: before and after every step no two Sessions share a code; no step
\* removes a Session or changes the code of one; a Session is added only under a
\* code no Session has; and a creation rejected for its code names a code that
\* is taken and leaves the collection as it was.
C24_CodeUniqueAndImmutable ==
    [][/\ SessionCodesDistinct(sessions) /\ SessionCodesDistinct(sessions')
       /\ Len(sessions') >= Len(sessions)
       /\ \A k \in 1..Len(sessions) : sessions'[k].code = sessions[k].code
       /\ \A k \in (Len(sessions) + 1)..Len(sessions') :
              \A l \in 1..Len(sessions) : sessions[l].code # sessions'[k].code
       /\ \A code \in createRejected' \ createRejected :
              /\ \E l \in 1..Len(sessions) : sessions[l].code = code
              /\ sessions' = sessions
      ]_vars

\* a creation was rejected for a code whose Session has counted a join and owns
\* a question, with the other code created as well
W24_CollidingCreationRejected ==
    \E k \in 1..Len(sessions) :
        /\ sessions[k].code \in createRejected
        /\ sessions[k].totalConnections > 0
        /\ \E q \in questions : q.sessionId = k
        /\ Len(sessions) = 2


\* C23: every persisted Question references, by its one sessionId, a Session
\* that is persisted, and that Session has the code the submission named.
C23_NoOrphanQuestion ==
    \A q \in questions :
        /\ q.sessionId \in 1..Len(sessions)
        /\ \A i \in 1..Len(asks) :
               asks[i].newQuestion = q.id => sessions[q.sessionId].code = asks[i].code

\* a question is persisted for the second of two rooms, and a deletion that
\* named an id with no record was answered 404
W23_QuestionOwnedAfterDeletion ==
    /\ Len(sessions) = 2
    /\ \E q \in questions : q.sessionId = 2
    /\ \E j \in 1..Len(deletes) : deletes[j].status = 404


\* request g of the GET route is answered with status st in this step
GetAnswered(g, st) ==
    /\ g \in 1..Len(gets) /\ gets[g].pc # "done"
    /\ gets'[g].pc = "done" /\ gets'[g].status = st

\* the questions persisted for the session with this code
QuestionsOfCode(code) ==
    {q \in questions : sessions[q.sessionId].code = code}

\* C22: a GET answered 200 returns the Session with the code asked for and the
\* Questions persisted for it as the query runs, each once, newest first; a GET
\* answered 404 named a code no Session has.
C22_GetReturnsQuestionsNewestFirst ==
    [][\A g \in 1..Len(gets) :
           /\ GetAnswered(g, 200) =>
                  LET resp == gets'[g].questions
                  IN /\ sessions[gets'[g].session].code = gets[g].code
                     /\ SeqToSet(resp) = QuestionsOfCode(gets[g].code)
                     /\ Len(resp) = Cardinality(QuestionsOfCode(gets[g].code))
                     /\ \A k \in 1..(Len(resp) - 1) : resp[k].id > resp[k + 1].id
           /\ GetAnswered(g, 404) => NoSessionWithCode(gets[g].code)
      ]_vars

\* the same with the questions oldest first
GetReturnsQuestionsOldestFirst ==
    [][\A g \in 1..Len(gets) :
           /\ GetAnswered(g, 200) =>
                  LET resp == gets'[g].questions
                  IN /\ sessions[gets'[g].session].code = gets[g].code
                     /\ SeqToSet(resp) = QuestionsOfCode(gets[g].code)
                     /\ Len(resp) = Cardinality(QuestionsOfCode(gets[g].code))
                     /\ \A k \in 1..(Len(resp) - 1) : resp[k].id < resp[k + 1].id
           /\ GetAnswered(g, 404) => NoSessionWithCode(gets[g].code)
      ]_vars

\* a read returned three questions after a submission
GetReturnedThree ==
    \E g \in 1..Len(gets) : gets[g].status = 200 /\ Len(gets[g].questions) = 3


\* every handle's frames after event e is written to the open handles of the
\* set of room r, as the table and the transports are when the step ends (no
\* step changes them after its broadcast)
WrittenToOpenMembers(r, e) ==
    [c \in Conns |->
        IF r \in DOMAIN rooms' /\ c \in SeqToSet(rooms'[r]) /\ readyState'[c] = "OPEN"
        THEN Append(sent[c], e)
        ELSE sent[c]]

AskAnswered200(i) == asks[i].pc # "done" /\ asks'[i].pc = "done" /\ asks'[i].status = 200

\* C25: a step that writes frames writes one event, once, to every open handle
\* of one room's set and to no other handle; the broadcast of a submission goes
\* to the set of the code submitted to and that of a deletion to the owner's,
\* and writes nothing when the table has no entry for the code; and no step
\* changes the table by broadcasting: only a close event of the same step does.
C25_BroadcastReachesOpenMembersOnly ==
    [][/\ sent' # sent =>
              \E r \in DOMAIN rooms', c \in Conns :
                  sent'[c] # <<>> /\ sent' = WrittenToOpenMembers(r, sent'[c][Len(sent'[c])])
       /\ \A i \in 1..Len(asks) :
              AskAnswered200(i) =>
                  sent' = WrittenToOpenMembers(asks[i].code,
                      [type |-> "new_question",
                       payload |-> [id |-> asks[i].newQuestion, text |-> asks[i].question,
                                    name |-> IF asks[i].name \in {"", undefined}
                                             THEN Anonymous ELSE asks[i].name]])
       /\ \A j \in 1..Len(deletes) :
              DeleteAnswered(j, 200) =>
                  sent' = WrittenToOpenMembers(sessions[deletes[j].sessionId].code,
                                               QuestionDeletedEvent(deletes[j].id))
       /\ (sent' # sent /\ ~\E c \in Conns : IsClose(c)) => rooms' = rooms
      ]_vars

\* a submission reached the one member of its room and not the open member of
\* the other room; the member left, and the deletion, broadcast to a code the
\* table no longer has, reached nobody
W25_DeliveredThenNoRoom ==
    \E i \in 1..Len(asks), j \in 1..Len(deletes), c, d \in Conns :
        /\ asks[i].status = 200 /\ deletes[j].status = 200
        /\ Len(NewQuestionFrames(c)) = 1
        /\ readyState[d] = "OPEN" /\ wsRoomCode[d] \notin {undefined, asks[i].code}
        /\ NewQuestionFrames(d) = <<>>
        /\ ~RoomsHas(rooms, asks[i].code)
        /\ deletes[j].audience = {}
        /\ \A e \in Conns : QuestionDeletedFrames(e) = <<>>


\* C26: while a join of handle c waits for its increment, the events of every
\* other handle and the steps of every submission can be taken: a frame of an
\* open handle (while frames are left to send), the first close event of a
\* handle, the resumption of another handle's join with either outcome, a new
\* submission (while submissions are left) and each step of a submission under
\* way. Nothing waits for c's store call, which may never complete.
C26_PendingJoinBlocksNobody ==
    \A c \in AskConns :
        joinTasks[c] # <<>> =>
            /\ \A d \in AskConns \ {c} :
                   /\ (readyState[d] = "OPEN" /\ joinFrames < MaxJoinFrames) =>
                          \A frame \in JoinFrames : ENABLED Message(d, frame)
                   /\ (readyState[d] # "CONNECTING" /\ closeEvents[d] = 0) => ENABLED Close(d)
                   /\ \A i \in 1..Len(joinTasks[d]), ok \in BOOLEAN : ENABLED JoinResume(d, i, ok)
            /\ Len(asks) < MaxAsks =>
                   \A code \in Codes, name \in Names : ENABLED AskReceive(code, "Hi", name, "ip1")
            /\ \A i \in 1..Len(asks) :
                   /\ asks[i].pc = "findOne" => ENABLED AskFindOneDone(i, TRUE)
                   /\ asks[i].pc = "save" => ENABLED AskSaveCommit(i, TRUE)
                   /\ asks[i].pc = "saved" => ENABLED AskSaveDone(i)

\* the join of one handle never resumed, and meanwhile another handle joined
\* the same room after it, had its own increment persisted, received the count
\* and a question submitted after that, and closed
W26_OthersServedWhileJoinWaits ==
    \E c, d \in AskConns, i \in 1..Len(asks) :
        /\ c # d
        /\ joinTasks[c] # <<>> /\ sent[c] = <<CountUpdate(2), NewQuestionEvent(
               NewQuestionDoc(asks[i], asks[i].session, asks[i].newQuestion))>>
        /\ sent[d] = sent[c]
        /\ joinTasks[d] = <<>>
        /\ asks[i].status = 200
        /\ closeEvents[d] = 1
        /\ \E k \in 1..Len(sessions) : sessions[k].totalConnections = 1


\* the step is the message handler of handle c taking a join frame for room r
IsJoinOf(c, r) ==
    /\ joinFrames' = joinFrames + 1
    /\ joinTasks'[c] = Append(joinTasks[c], r)

\* C27: when a handle that is in the set of room r sends a join for r again,
\* the handler leaves the whole table as it was: the set of r has the same
\* members, each once, and so the same size, which is the live count
C27_RepeatedJoinKeepsMembership ==
    [][\A c \in Conns, r \in Codes :
           (IsJoinOf(c, r) /\ RoomsHas(rooms, r) /\ c \in Members(r)) =>
               /\ rooms' = rooms
               /\ Cardinality(SeqToSet(rooms'[r])) = Len(rooms'[r])
               /\ currentCount(rooms', r) = currentCount(rooms, r)
      ]_vars

\* a handle joined the same room twice, both joins resumed, and both times the
\* count it was sent was 1: it is in the room's set once
W27_JoinedTwiceCountedOnce ==
    \E c \in Conns, r \in Codes :
        /\ joinFrames = 2 /\ joinLog[c] = {r}
        /\ RoomsHas(rooms, r) /\ rooms[r] = <<c>>
        /\ sent[c] = <<CountUpdate(1), CountUpdate(1)>>


\* the step is the first close event of handle c, which is joined to a room
\* (ws.roomCode names it)
IsDisconnectOfJoined(c) ==
    /\ closeEvents[c] = 0 /\ closeEvents'[c] = 1
    /\ wsRoomCode[c] # undefined

\* the members of c's room without c, in the set's order
RemainingMembers(c) == SelectSeq(rooms[wsRoomCode[c]], LAMBDA d : d # c)

\* C28: when a handle joined to room r has its close event, r has an entry
\* with the handle in it, and: if other members remain, the set of r becomes
\* the remaining members and one client_count_update with their number is
\* appended to the frames of each remaining member whose transport is open,
\* and nothing to any other handle, the leaver included; if none remains, the
\* entry of r is removed and no handle is sent anything. No other entry of
\* the table changes.
C28_DisconnectAnnouncedToRemaining ==
    [][\A c \in Conns :
           IsDisconnectOfJoined(c) =>
               /\ RoomsHas(rooms, wsRoomCode[c]) /\ c \in Members(wsRoomCode[c])
               /\ IF RemainingMembers(c) # <<>>
                  THEN /\ rooms' = [rooms EXCEPT ![wsRoomCode[c]] = RemainingMembers(c)]
                       /\ \A d \in Conns :
                              sent'[d] =
                                  IF /\ d \in SeqToSet(RemainingMembers(c))
                                     /\ readyState'[d] = "OPEN"
                                  THEN Append(sent[d], CountUpdate(Len(RemainingMembers(c))))
                                  ELSE sent[d]
                       /\ sent'[c] = sent[c]
                  ELSE /\ DOMAIN rooms' = DOMAIN rooms \ {wsRoomCode[c]}
                       /\ \A r \in DOMAIN rooms' : rooms'[r] = rooms[r]
                       /\ sent' = sent
      ]_vars

\* two handles joined one room and were each sent the count 2 twice; one had
\* its close event, and the other, alone in the set, was sent the count 1,
\* which the leaver was not
W28_RemainingMemberToldOfLeave ==
    \E c, d \in Conns, r \in Codes :
        /\ c # d
        /\ closeEvents[c] = 1 /\ wsRoomCode[c] = r /\ wsRoomCode[d] = r
        /\ RoomsHas(rooms, r) /\ rooms[r] = <<d>>
        /\ sent[c] = <<CountUpdate(2), CountUpdate(2)>>
        /\ sent[d] = <<CountUpdate(2), CountUpdate(2), CountUpdate(1)>>


\* the step is the store removing the question request j names
IsRemovalOf(j) == ~deletes[j].deleted /\ deletes'[j].deleted

\* C29: the step in which the store removes the question a deletion names
\* takes exactly that question out; every step of a deletion request leaves
\* the other questions, every Session (code and counter) and the rooms table
\* as they were; and in every step of any operation a question that is still
\* persisted is the same record as before (text, name and owner included).
C29_DeleteRemovesOnlyItsQuestion ==
    [][/\ \A j \in 1..Len(deletes) :
              IsRemovalOf(j) =>
                  /\ \E q \in questions : q.id = deletes[j].id
                  /\ questions' = {q \in questions : q.id # deletes[j].id}
       /\ deletes' # deletes =>
              /\ sessions' = sessions
              /\ rooms' = rooms
              /\ (\A j \in 1..Len(deletes) : ~IsRemovalOf(j)) => questions' = questions
       /\ \A q \in questions, p \in questions' : p.id = q.id => p = q
      ]_vars

\* question 1 was deleted and the deletion answered 200 while the other two
\* stored questions, a room with a member and a counted join are all there
W29_OneOfThreeDeleted ==
    \E j \in 1..Len(deletes), c \in Conns :
        /\ deletes[j].id = 1 /\ deletes[j].status = 200
        /\ questions = {q \in StoredQuestions : q.id # 1}
        /\ RoomsHas(rooms, "A") /\ rooms["A"] = <<c>>
        /\ sessions[1].totalConnections = 1


\* C30: in the frames sent to a handle, a question_deleted naming a question
\* never comes before the new_question of that question
C30_DeletedNeverBeforeNew ==
    \A c \in Conns : \A k, n \in 1..Len(sent[c]) :
        (/\ sent[c][k].type = "question_deleted"
         /\ sent[c][n].type = "new_question"
         /\ sent[c][n].payload.id = sent[c][k].payload.questionId) => n < k


\* handle d is written a client_count_update in this step, and n is its count
IsSentCount(d, n) ==
    /\ sent'[d] # sent[d]
    /\ sent'[d][Len(sent'[d])] = CountUpdate(n)

\* C31: a client_count_update written to a handle carries a count of at least
\* 1 that is the size, as the step writes it, of the set of the room the step
\* is about and the handle is in: the room a resumed join named, or the room
\* ws.roomCode names at a close event. A count of 0 reaches nobody.
C31_CountIsSetSizeWhenSent ==
    [][\A d \in Conns, n \in 0..NumConns :
           IsSentCount(d, n) =>
               /\ n >= 1
               /\ \/ \E c \in Conns, r \in Codes :
                         /\ ResumesJoinOf(c, r)
                         /\ RoomsHas(rooms', r) /\ d \in SeqToSet(rooms'[r])
                         /\ n = Len(rooms'[r])
                  \/ \E c \in Conns :
                         /\ IsClose(c) /\ wsRoomCode[c] # undefined
                         /\ RoomsHas(rooms', wsRoomCode[c])
                         /\ d \in SeqToSet(rooms'[wsRoomCode[c]])
                         /\ n = Len(rooms'[wsRoomCode[c]])
      ]_vars

\* two rooms with one member each, a third handle's transport closing: each
\* member was sent the count of its own room, 1, and nothing else
W31_EachRoomCountsItsOwn ==
    \E c, d \in Conns, r, q \in Codes :
        /\ c # d /\ r # q
        /\ RoomsHas(rooms, r) /\ RoomsHas(rooms, q)
        /\ rooms[r] = <<c>> /\ rooms[q] = <<d>>
        /\ sent[c] = <<CountUpdate(1)>> /\ sent[d] = <<CountUpdate(1)>>
        /\ \E e \in Conns : readyState[e] = "CLOSING"


\* no increment is outstanding and no transport has closed without its close
\* event having run
Quiescent ==
    /\ \A c \in Conns : joinTasks[c] = <<>>
    /\ \A c \in Conns : readyState[c] # "CLOSING"

\* the count of the last client_count_update written to c, 0 if there is none
LastCount(c) ==
    IF CountsAt(c) = <<>> THEN 0 ELSE CountsAt(c)[Len(CountsAt(c))].count

\* the open handles whose room association is r
OpenJoinedTo(r) == {d \in Conns : readyState[d] = "OPEN" /\ wsRoomCode[d] = r}

\* C32: in a quiescent state, the last client_count_update written to each
\* open member of each room's set carries the number of open handles joined
\* to that room
C32_QuiescentCountIsOpenMembers ==
    Quiescent =>
        \A r \in DOMAIN rooms : \A c \in SeqToSet(rooms[r]) :
            readyState[c] = "OPEN" => LastCount(c) = Cardinality(OpenJoinedTo(r))

\* the same where the store accepted every increment and no handle named two
\* different rooms
QuiescentCountWithoutFailureOrRejoin ==
    (Quiescent /\ incFailures = {} /\ NoRejoinElsewhere) =>
        \A r \in DOMAIN rooms : \A c \in SeqToSet(rooms[r]) :
            readyState[c] = "OPEN" => LastCount(c) = Cardinality(OpenJoinedTo(r))


\* the question_deleted frames written to c that name question id
DeletedFramesOf(c, id) ==
    SelectSeq(sent[c], LAMBDA f : f = QuestionDeletedEvent(id))

\* the DELETE requests naming question id
RequestsFor(id) == {j \in 1..Len(deletes) : deletes[j].id = id}

\* C33: of the DELETE requests processed side by side for the same stored
\* question, two or more, at most one gets the document from the store; once
\* all are answered exactly one was answered 200 and every other 404, those
\* answered 404 broadcast to nobody, and every handle has been written one
\* question_deleted for the id if it was an open member of the room at the
\* broadcast of the request answered 200, and none otherwise.
C33_ConcurrentDeletesOneWins ==
    \A id \in DeleteTwiceIds :
        Cardinality(RequestsFor(id)) >= 2 =>
            /\ Cardinality({j \in RequestsFor(id) : deletes[j].deleted}) <= 1
            /\ \A c \in Conns : Len(DeletedFramesOf(c, id)) <= 1
            /\ (\A j \in RequestsFor(id) : deletes[j].pc = "done") =>
                   /\ Cardinality({j \in RequestsFor(id) : deletes[j].status = 200}) = 1
                   /\ \A j \in RequestsFor(id) :
                          /\ deletes[j].status \in {200, 404}
                          /\ deletes[j].status = 404 => deletes[j].audience = {}
                          /\ deletes[j].status = 200 =>
                                 \A c \in Conns :
                                     Len(DeletedFramesOf(c, id)) =
                                         IF c \in deletes[j].audience THEN 1 ELSE 0

\* two requests for question 1 overlap: the first got the document and waits
\* for the owner's lookup, its broadcast still to come, and the second has
\* been answered 404 meanwhile; the room's member has no question_deleted yet
W33_LoserAnsweredBeforeWinnerBroadcast ==
    \E c \in Conns :
        /\ Len(deletes) = 2
        /\ deletes[1].id = 1 /\ deletes[2].id = 1
        /\ deletes[2].status = 404 /\ deletes[2].pc = "done"
        /\ deletes[1].deleted /\ deletes[1].pc = "findById"
        /\ RoomsHas(rooms, "A") /\ rooms["A"] = <<c>>
        /\ sent[c] = <<CountUpdate(1)>>


\* a frame that names its question: no two broadcasts write the same one
IsQuestionFrame(f) == f.type \in {"new_question", "question_deleted"}

\* two question frames that c and d were both written come in the same order
\* in both handles' frames
SameOrderAt(c, d) ==
    \A i, j \in 1..Len(sent[c]), k, l \in 1..Len(sent[d]) :
        (/\ i < j
         /\ IsQuestionFrame(sent[c][i]) /\ IsQuestionFrame(sent[c][j])
         /\ sent[c][i] = sent[d][k] /\ sent[c][j] = sent[d][l]) => k < l

\* C34: a step writes to a handle by appending one frame after all it was
\* written before, and the handles written in one step are written the same
\* frame, so the events of a room reach every member in the order of their
\* broadcasts, count updates included; and the frames that tell their event
\* apart by its question id come in the same order at any two handles that
\* were written both.
C34_SameOrderAtEveryMember ==
    [][/\ \A c \in Conns :
              \/ sent'[c] = sent[c]
              \/ /\ Len(sent'[c]) = Len(sent[c]) + 1
                 /\ SubSeq(sent'[c], 1, Len(sent[c])) = sent[c]
       /\ \A c, d \in Conns :
              (sent'[c] # sent[c] /\ sent'[d] # sent[d]) =>
                  sent'[c][Len(sent'[c])] = sent'[d][Len(sent'[d])]
       /\ \A c, d \in Conns : SameOrderAt(c, d)'
      ]_vars

\* one handle joined alone, a second joined the same room, and a submission
\* and its deletion were broadcast: both hold the count 2, the new_question and
\* the question_deleted in that order, the first after its count 1
W34_TwoMembersSameOrder ==
    \E c, d \in Conns :
        /\ c # d
        /\ Len(sent[d]) = 3 /\ Len(sent[c]) = 4
        /\ sent[c] = <<CountUpdate(1)>> \o sent[d]
        /\ sent[d][1] = CountUpdate(2)
        /\ sent[d][2].type = "new_question"
        /\ sent[d][3] = QuestionDeletedEvent(sent[d][2].payload.id)


\* C35: a join frame naming a code no Session has puts the handle into the
\* set of that code in the rooms table all the same, and its continuation,
\* unless the store rejected the update, writes the size of that set to every
\* open member of it; neither step adds a Session or changes one.
C35_JoinWithoutSession ==
    [][\A c \in Conns, r \in Codes :
           NoSessionWithCode(r) =>
               /\ IsJoinOf(c, r) =>
                      /\ RoomsHas(rooms', r) /\ c \in SeqToSet(rooms'[r])
                      /\ wsRoomCode'[c] = r
                      /\ sessions' = sessions
               /\ (ResumesJoinOf(c, r) /\ r \notin incFailures') =>
                      /\ sessions' = sessions
                      /\ RoomsHas(rooms, r) =>
                             \A d \in Conns :
                                 sent'[d] =
                                     IF d \in SeqToSet(rooms[r]) /\ readyState[d] = "OPEN"
                                     THEN Append(sent[d], CountUpdate(Len(rooms[r])))
                                     ELSE sent[d]
      ]_vars

\* no Session was ever created, and two handles are in the set of a code and
\* have been sent its count, 2, by each of the two joins
W35_RoomWithoutSession ==
    \E c, d \in Conns, r \in Codes :
        /\ c # d
        /\ sessions = <<>> /\ createRejected = {}
        /\ RoomsHas(rooms, r) /\ rooms[r] = <<c, d>>
        /\ joinTasks[c] = <<>> /\ joinTasks[d] = <<>>
        /\ sent[c] = <<CountUpdate(2), CountUpdate(2)>>
        /\ sent[d] = sent[c]


\* C36: every handle whose transport is open and whose roomCode names a room
\* is in the set the rooms table holds for that room, whether or not the
\* increment of its join has completed
C36_OpenJoinedHandleIsMember ==
    \A c \in Conns :
        (readyState[c] = "OPEN" /\ wsRoomCode[c] # undefined) =>
            /\ RoomsHas(rooms, wsRoomCode[c])
            /\ c \in SeqToSet(rooms[wsRoomCode[c]])

\* a handle is open and in its room's set with its increment outstanding,
\* after the room's other member had its close event
W36_MemberWhileIncrementOutstanding ==
    \E c, d \in Conns, r \in Codes :
        /\ c # d
        /\ readyState[c] = "OPEN" /\ wsRoomCode[c] = r /\ joinTasks[c] = <<r>>
        /\ closeEvents[d] = 1 /\ wsRoomCode[d] = r
        /\ RoomsHas(rooms, r) /\ rooms[r] = <<c>>


\* request i is received in this step
LegacyReceived(i) == Len(asks) = i - 1 /\ Len(asks') = i

\* request i is answered with status st in this step
LegacyAnswered(i, st) ==
    /\ i \in 1..Len(asks')
    /\ asks'[i].pc = "done" /\ asks'[i].status = st
    /\ i > Len(asks) \/ asks[i].pc # "done"

\* C37: in the room-less revision a POST /ask whose question is empty or
\* missing is answered 400 at once, and the step persists and writes nothing;
\* a request answered 500 had its save rejected, nothing was persisted for it
\* and its step writes nothing; a request is answered 200 only with its
\* question persisted, and that step appends its new_question to the frames of
\* exactly the handles whose transport is open; and no other step of the route
\* writes a frame or adds a question without the store accepting the save.
C37_LegacyAsk ==
    [][/\ sent' # sent => \E k \in 1..MaxAsks : LegacyAnswered(k, 200)
       /\ \A i \in 1..MaxAsks :
           /\ LegacyReceived(i) =>
                  /\ (asks'[i].question \in {"", undefined}) <=> LegacyAnswered(i, 400)
                  /\ asks'[i].question \notin {"", undefined} => asks'[i].pc = "save"
                  /\ questions' = questions /\ sent' = sent
           /\ LegacyAnswered(i, 500) =>
                  /\ ~asks'[i].saved
                  /\ \A q \in questions' : q.id # asks'[i].newQuestion
                  /\ questions' = questions /\ sent' = sent
           /\ LegacyAnswered(i, 200) =>
                  /\ asks[i].saved
                  /\ \E q \in questions :
                         /\ q.id = asks[i].newQuestion /\ q.text = asks[i].question
                         /\ \A c \in Conns :
                                sent'[c] =
                                    IF readyState[c] = "OPEN"
                                    THEN Append(sent[c],
                                             [type |-> "new_question",
                                              payload |-> [text |-> q.text, name |-> q.name]])
                                    ELSE sent[c]
      ]_vars

\* a question was saved and answered 200: the open client holds its
\* new_question, and the client whose transport was closing holds nothing
W37_LegacySavedThenSent ==
    \E i \in 1..Len(asks), c, d \in Conns :
        /\ asks[i].status = 200 /\ asks[i].audience = {c}
        /\ Len(sent[c]) = 1 /\ sent[c][1].type = "new_question"
        /\ sent[c][1].payload.name = Anonymous
        /\ readyState[d] = "CLOSING" /\ sent[d] = <<>>
        /\ \E q \in questions : q.id = asks[i].newQuestion

====
